---------------------------- MODULE Spec2Model ----------------------------
(***************************************************************************)
(* Model of the ingestor (server/ingestor): the storage operations of      *)
(* db.rs, the keyword topic classifier of topics.rs and the ingestion      *)
(* cycle of sources/mod.rs, sources/arxiv.rs and sources/rss.rs.           *)
(*                                                                         *)
(* Rust strings are sequences of one-character strings; Option<T> is a     *)
(* sequence of length 0 (None) or 1 (Some(x)).                             *)
(***************************************************************************)
EXTENDS Integers, Sequences, FiniteSets, TLC

VARIABLES
  items,         \* table items: a set of rows
  item_topics,   \* table item_topics: a set of rows
  item_likes,    \* table item_likes: a set of rows
  next_uuid,     \* Uuid::new_v4(): the next fresh id
  clock,         \* Utc::now()
  call,          \* the last call of a storage operation: arguments, result, table before
  upserted,      \* history: the (source_id, url) keys upserted successfully
  accepted,      \* history: the set_item_like calls that returned Ok, by key
  sources,       \* table sources: a set of rows
  pc,            \* ingestion_loop / run_ingestion_cycle: where control is
  sources_vec,   \* run_ingestion_cycle: the Vec returned by get_active_sources
  idx,           \* run_ingestion_cycle: position of the for loop in sources_vec
  total_inserted,\* run_ingestion_cycle: total_inserted
  feed_items,    \* run_*_ingestion: the items not yet taken by the for loop
  inserted,      \* run_*_ingestion: inserted
  cur_item,      \* run_arxiv_ingestion: Option of the item of the loop body
  topics,        \* run_arxiv_ingestion: the topics not yet taken by the for loop
  cycle_result,  \* ingestion_loop: Option of the last value of run_ingestion_cycle
  cycles,        \* the number of cycles started
  faults,        \* the number of failures of the storage and of the network so far
  log,           \* history: the calls of the running cycle, in order
  cl_title,      \* extract_topics: argument title
  cl_summary,    \* extract_topics: argument summary (Option)
  cl_topics,     \* extract_topics: Option of the returned Vec<String>
  feed,          \* fetch_*_items: Option of the decoded response
  parsed         \* fetch_*_items: Option of the returned Vec<Item>

storeVars == <<items, item_topics, item_likes, next_uuid, clock>>
callVars == <<call, upserted, accepted>>
classifierVars == <<cl_title, cl_summary, cl_topics>>
parserVars == <<feed, parsed>>
runVars == <<sources, pc, sources_vec, idx, total_inserted, feed_items, inserted,
             cur_item, topics, cycle_result, cycles, faults, log>>

vars == <<items, item_topics, item_likes, next_uuid, clock, call, upserted, accepted,
          sources, pc, sources_vec, idx, total_inserted, feed_items, inserted,
          cur_item, topics, cycle_result, cycles, faults, log,
          cl_title, cl_summary, cl_topics, feed, parsed>>

None == <<>>
Some(x) == <<x>>
IsSome(o) == Len(o) = 1
Unwrap(o) == o[1]

Range(s) == {s[i] : i \in DOMAIN s}

(***************************************************************************)
(* db.rs                                                                   *)
(***************************************************************************)

\* ON CONFLICT (source_id, url) (db.rs:110)
item_conflict(r, item) == r.source_id = item.source_id /\ r.url = item.url

\* a mutation of insert_or_update_item: ON CONFLICT ... DO NOTHING
insert_or_update_item_do_nothing(rows, item) ==
  IF \E r \in rows : item_conflict(r, item) THEN rows ELSE rows \cup {item}

\* a mutation of insert_or_update_item: ON CONFLICT (url)
insert_or_update_item_url_key(rows, item) ==
  IF \E r \in rows : r.url = item.url
  THEN {IF r.url = item.url
        THEN [r EXCEPT !.title = item.title, !.summary = item.summary,
                       !.body = item.body, !.published_at = item.published_at,
                       !.raw_metadata = item.raw_metadata,
                       !.updated_at = item.updated_at]
        ELSE r : r \in rows}
  ELSE rows \cup {item}

\* a mutation of insert_or_update_item: the conflicting row is replaced whole
insert_or_update_item_replace(rows, item) ==
  {r \in rows : ~item_conflict(r, item)} \cup {item}

\* the statement of insert_or_update_item, executed: INSERT ... ON CONFLICT
\* (source_id, url) DO UPDATE SET title, summary, body, published_at,
\* raw_metadata, updated_at
insert_or_update_item(rows, item) ==
  IF \E r \in rows : item_conflict(r, item)
  THEN {IF item_conflict(r, item)
        THEN [r EXCEPT !.title = item.title, !.summary = item.summary,
                       !.body = item.body, !.published_at = item.published_at,
                       !.raw_metadata = item.raw_metadata,
                       !.updated_at = item.updated_at]
        ELSE r : r \in rows}
  ELSE rows \cup {item}

\* the uniqueness key of item_topics that ON CONFLICT DO NOTHING (db.rs:156)
\* relies on; the schema (../migrations) declares it
item_topic_conflict(r, item_id, topic) == r.item_id = item_id /\ r.topic = topic

\* a mutation of add_item_topic: a plain INSERT, which a duplicate makes fail
add_item_topic_plain_insert(rows, item_id, topic, db_ok) ==
  IF ~db_ok \/ \E r \in rows : item_topic_conflict(r, item_id, topic)
  THEN [ok |-> FALSE, rows |-> rows]
  ELSE [ok |-> TRUE,
        rows |-> rows \cup {[id |-> Cardinality(rows) + 1,
                             item_id |-> item_id, topic |-> topic]}]

\* add_item_topic: Err when the statement fails (db_ok false), else Ok with the
\* row inserted unless it conflicts; id is the table's serial
add_item_topic(rows, item_id, topic, db_ok) ==
  IF ~db_ok THEN [ok |-> FALSE, rows |-> rows]
  ELSE IF \E r \in rows : item_topic_conflict(r, item_id, topic)
  THEN [ok |-> TRUE, rows |-> rows]
  ELSE [ok |-> TRUE,
        rows |-> rows \cup {[id |-> Cardinality(rows) + 1,
                             item_id |-> item_id, topic |-> topic]}]

\* ON CONFLICT (user_id, item_id) DO UPDATE SET score (db.rs:184-185)
upsert_item_like(rows, user_id, item_id, score) ==
  IF \E r \in rows : r.user_id = user_id /\ r.item_id = item_id
  THEN {IF r.user_id = user_id /\ r.item_id = item_id
        THEN [r EXCEPT !.score = score] ELSE r : r \in rows}
  ELSE rows \cup {[id |-> Cardinality(rows) + 1, user_id |-> user_id,
                   item_id |-> item_id, score |-> score]}

\* a mutation of set_item_like: the upper limit of the check is off by one
set_item_like_off_by_one(rows, user_id, item_id, score, db_ok) ==
  IF score < -1 \/ score > 2
  THEN [ok |-> FALSE, err |-> "validation", rows |-> rows]
  ELSE IF ~db_ok THEN [ok |-> FALSE, err |-> "storage", rows |-> rows]
  ELSE [ok |-> TRUE, err |-> "none",
        rows |-> upsert_item_like(rows, user_id, item_id, score)]

\* set_item_like: the score check, then the statement (which fails when
\* db_ok is false)
set_item_like(rows, user_id, item_id, score, db_ok) ==
  IF score < -1 \/ score > 1
  THEN [ok |-> FALSE, err |-> "validation", rows |-> rows]
  ELSE IF ~db_ok THEN [ok |-> FALSE, err |-> "storage", rows |-> rows]
  ELSE [ok |-> TRUE, err |-> "none",
        rows |-> upsert_item_like(rows, user_id, item_id, score)]

(***************************************************************************)
(* Callers of the storage operations: each call takes its arguments from   *)
(* the sets below.  An Item is built as the two entry_to_item functions    *)
(* build it: a fresh id, created_at and updated_at read from the clock.    *)
(***************************************************************************)
MaxItemCalls == 3

SourceIdInputs == {1, 2}

UrlInputs ==
  { <<"/","a","b","s","/","1">>,      \* "/abs/1"
    <<"/","a","b","s","/","2">> }     \* "/abs/2"

ItemContents ==
  { [title |-> <<"G","P","T","-","4">>, summary |-> Some(<<"m","o","d","e","l">>),
     body |-> None, published_at |-> 1, raw_metadata |-> [feed_id |-> "e1"]],
    [title |-> <<"T","o","o","l">>, summary |-> Some(<<"r","l">>),
     body |-> Some(<<"c","o","o","k","i","n","g">>), published_at |-> 2,
     raw_metadata |-> [feed_id |-> "e2"]],
    [title |-> <<"G","P","T","-","4">>, summary |-> None,
     body |-> None, published_at |-> 1, raw_metadata |-> [feed_id |-> "e1"]] }

MediumOf(source_id) == IF source_id = 1 THEN "paper" ELSE "blog"

\* (user_id, item_id) arguments of set_item_like
LikeKeyInputs == {<<"u1", 1>>, <<"u1", 2>>, <<"u2", 1>>}

ItemIdInputs == {1, 2}

\* i32 scores: the three allowed ones, their neighbours and the extremes
ScoreInputs == {-2147483647 - 1, -2, -1, 0, 1, 2, 2147483647}

TopicInputs == {"LLM", "RL"}

InitStore ==
  /\ items = {}
  /\ item_topics = {}
  /\ item_likes = {}
  /\ next_uuid = 1
  /\ clock = 1

InitCalls ==
  /\ call = [op |-> "none"]
  /\ upserted = {}
  /\ accepted = <<>>

InitNoClassifier ==
  /\ cl_title = <<>>
  /\ cl_summary = None
  /\ cl_topics = None

InitNoParser ==
  /\ feed = None
  /\ parsed = None

\* no source configured, the ingestion loop not started
InitNoRun ==
  /\ sources = {}
  /\ pc = "loop"
  /\ sources_vec = <<>>
  /\ idx = 1
  /\ total_inserted = 0
  /\ feed_items = <<>>
  /\ inserted = 0
  /\ cur_item = None
  /\ topics = <<>>
  /\ cycle_result = None
  /\ cycles = 0
  /\ faults = 0
  /\ log = <<>>

\* the empty store, no call made yet
InitDb == InitStore /\ InitCalls /\ InitNoClassifier /\ InitNoParser /\ InitNoRun

\* a call insert_or_update_item(pool, &item); Err (and no change) when the
\* statement fails
InsertOrUpdateItemCall ==
  /\ next_uuid <= MaxItemCalls
  /\ \E source_id \in SourceIdInputs, url \in UrlInputs, c \in ItemContents,
        db_ok \in BOOLEAN :
       LET item == [id |-> next_uuid, source_id |-> source_id,
                    source_type |-> MediumOf(source_id), title |-> c.title,
                    url |-> url, summary |-> c.summary, body |-> c.body,
                    published_at |-> c.published_at,
                    raw_metadata |-> c.raw_metadata,
                    created_at |-> clock, updated_at |-> clock]
       IN  /\ items' = IF db_ok THEN insert_or_update_item(items, item) ELSE items
           /\ call' = [op |-> "insert_or_update_item", item |-> item,
                       ok |-> db_ok, before |-> items]
           /\ upserted' = IF db_ok THEN upserted \cup {<<source_id, url>>}
                          ELSE upserted
  /\ next_uuid' = next_uuid + 1
  /\ clock' = clock + 1
  /\ UNCHANGED <<item_topics, item_likes, accepted, classifierVars, parserVars, runVars>>

NextItems == InsertOrUpdateItemCall

SpecItems == InitDb /\ [][NextItems]_vars

\* a call add_item_topic(pool, item_id, topic)
AddItemTopicCall ==
  /\ \E item_id \in ItemIdInputs, topic \in TopicInputs, db_ok \in BOOLEAN :
       LET res == add_item_topic(item_topics, item_id, topic, db_ok)
       IN  /\ item_topics' = res.rows
           /\ call' = [op |-> "add_item_topic", item_id |-> item_id,
                       topic |-> topic, db_ok |-> db_ok, ok |-> res.ok,
                       before |-> item_topics]
  /\ UNCHANGED <<items, item_likes, next_uuid, clock, upserted, accepted,
                 classifierVars, parserVars, runVars>>

NextItemTopics == AddItemTopicCall

SpecItemTopics == InitDb /\ [][NextItemTopics]_vars

\* a call set_item_like(pool, user_id, item_id, score)
SetItemLikeCall ==
  /\ \E key \in LikeKeyInputs, score \in ScoreInputs, db_ok \in BOOLEAN :
       LET user_id == key[1]
           item_id == key[2]
           res == set_item_like(item_likes, user_id, item_id, score, db_ok)
       IN  /\ item_likes' = res.rows
           /\ call' = [op |-> "set_item_like", user_id |-> user_id,
                       item_id |-> item_id, score |-> score, ok |-> res.ok,
                       err |-> res.err, before |-> item_likes]
           /\ accepted' = IF res.ok
                          THEN [k \in DOMAIN accepted \cup {key} |->
                                  IF k = key THEN score ELSE accepted[k]]
                          ELSE accepted
  /\ UNCHANGED <<items, item_topics, next_uuid, clock, upserted, classifierVars,
                 parserVars, runVars>>

NextItemLikes == SetItemLikeCall

SpecItemLikes == InitDb /\ [][NextItemLikes]_vars

(***************************************************************************)
(* topics.rs                                                               *)
(***************************************************************************)

UpperChars ==
  <<"A","B","C","D","E","F","G","H","I","J","K","L","M",
    "N","O","P","Q","R","S","T","U","V","W","X","Y","Z">>

LowerChars ==
  <<"a","b","c","d","e","f","g","h","i","j","k","l","m",
    "n","o","p","q","r","s","t","u","v","w","x","y","z">>

\* char::to_lowercase on the characters the model uses (ASCII)
LowerChar(c) ==
  IF \E i \in DOMAIN UpperChars : UpperChars[i] = c
  THEN LowerChars[CHOOSE i \in DOMAIN UpperChars : UpperChars[i] = c]
  ELSE c

\* a mutation of to_lowercase: the text is left as written
to_lowercase_identity(s) == s

\* str::to_lowercase (topics.rs:11)
to_lowercase(s) == [i \in DOMAIN s |-> LowerChar(s[i])]

RECURSIVE find_from(_, _, _)
\* str::contains as a left-to-right scan for the first occurrence at or after i
find_from(text, keyword, i) ==
  IF i + Len(keyword) - 1 > Len(text) THEN FALSE
  ELSE IF SubSeq(text, i, i + Len(keyword) - 1) = keyword THEN TRUE
  ELSE find_from(text, keyword, i + 1)

\* text.contains(keyword) (topics.rs:227)
contains(text, keyword) == find_from(text, keyword, 1)

\* a mutation of contains_any_keyword: only the first keyword is tried
contains_first_keyword(text, keywords) ==
  Len(keywords) > 0 /\ contains(text, keywords[1])

\* keywords.iter().any(|keyword| text.contains(keyword))
contains_any_keyword(text, keywords) ==
  \E k \in DOMAIN keywords : contains(text, keywords[k])

\* keywords of the LLM block: llm, large language model, gpt, transformer, bert, t5, llama, claude, chatgpt, prompt engineering
Keywords_LLM ==
  <<
     <<"l","l","m">>,
     <<"l","a","r","g","e"," ","l","a","n","g","u","a","g","e"," ","m","o","d","e","l">>,
     <<"g","p","t">>,
     <<"t","r","a","n","s","f","o","r","m","e","r">>,
     <<"b","e","r","t">>,
     <<"t","5">>,
     <<"l","l","a","m","a">>,
     <<"c","l","a","u","d","e">>,
     <<"c","h","a","t","g","p","t">>,
     <<"p","r","o","m","p","t"," ","e","n","g","i","n","e","e","r","i","n","g">>
  >>

\* keywords of the RL block: reinforcement learning, rl, rlhf, reward model, policy gradient, q-learning, dpo
Keywords_RL ==
  <<
     <<"r","e","i","n","f","o","r","c","e","m","e","n","t"," ","l","e","a","r","n","i","n","g">>,
     <<"r","l">>,
     <<"r","l","h","f">>,
     <<"r","e","w","a","r","d"," ","m","o","d","e","l">>,
     <<"p","o","l","i","c","y"," ","g","r","a","d","i","e","n","t">>,
     <<"q","-","l","e","a","r","n","i","n","g">>,
     <<"d","p","o">>
  >>

\* keywords of the Multimodal block: multimodal, vision, image, video, dall-e, clip, visual, ocr, object detection
Keywords_Multimodal ==
  <<
     <<"m","u","l","t","i","m","o","d","a","l">>,
     <<"v","i","s","i","o","n">>,
     <<"i","m","a","g","e">>,
     <<"v","i","d","e","o">>,
     <<"d","a","l","l","-","e">>,
     <<"c","l","i","p">>,
     <<"v","i","s","u","a","l">>,
     <<"o","c","r">>,
     <<"o","b","j","e","c","t"," ","d","e","t","e","c","t","i","o","n">>
  >>

\* keywords of the Systems block: infrastructure, mlops, systems, deployment, production, scalability, distributed, gpu, vram, quantization, inference, serving
Keywords_Systems ==
  <<
     <<"i","n","f","r","a","s","t","r","u","c","t","u","r","e">>,
     <<"m","l","o","p","s">>,
     <<"s","y","s","t","e","m","s">>,
     <<"d","e","p","l","o","y","m","e","n","t">>,
     <<"p","r","o","d","u","c","t","i","o","n">>,
     <<"s","c","a","l","a","b","i","l","i","t","y">>,
     <<"d","i","s","t","r","i","b","u","t","e","d">>,
     <<"g","p","u">>,
     <<"v","r","a","m">>,
     <<"q","u","a","n","t","i","z","a","t","i","o","n">>,
     <<"i","n","f","e","r","e","n","c","e">>,
     <<"s","e","r","v","i","n","g">>
  >>

\* keywords of the Alignment block: alignment, safety, ethics, fairness, bias, hallucination, interpretability, explainability, responsible ai, agi
Keywords_Alignment ==
  <<
     <<"a","l","i","g","n","m","e","n","t">>,
     <<"s","a","f","e","t","y">>,
     <<"e","t","h","i","c","s">>,
     <<"f","a","i","r","n","e","s","s">>,
     <<"b","i","a","s">>,
     <<"h","a","l","l","u","c","i","n","a","t","i","o","n">>,
     <<"i","n","t","e","r","p","r","e","t","a","b","i","l","i","t","y">>,
     <<"e","x","p","l","a","i","n","a","b","i","l","i","t","y">>,
     <<"r","e","s","p","o","n","s","i","b","l","e"," ","a","i">>,
     <<"a","g","i">>
  >>

\* keywords of the Agents block: agent, autonomous, robotics, automation, action planning, tool use, function calling
Keywords_Agents ==
  <<
     <<"a","g","e","n","t">>,
     <<"a","u","t","o","n","o","m","o","u","s">>,
     <<"r","o","b","o","t","i","c","s">>,
     <<"a","u","t","o","m","a","t","i","o","n">>,
     <<"a","c","t","i","o","n"," ","p","l","a","n","n","i","n","g">>,
     <<"t","o","o","l"," ","u","s","e">>,
     <<"f","u","n","c","t","i","o","n"," ","c","a","l","l","i","n","g">>
  >>

\* keywords of the Finance block: finance, trading, market, stock, portfolio, investment, risk, quant, algorithmic
Keywords_Finance ==
  <<
     <<"f","i","n","a","n","c","e">>,
     <<"t","r","a","d","i","n","g">>,
     <<"m","a","r","k","e","t">>,
     <<"s","t","o","c","k">>,
     <<"p","o","r","t","f","o","l","i","o">>,
     <<"i","n","v","e","s","t","m","e","n","t">>,
     <<"r","i","s","k">>,
     <<"q","u","a","n","t">>,
     <<"a","l","g","o","r","i","t","h","m","i","c">>
  >>

\* keywords of the Open Source block: open source, hugging face, pytorch, tensorflow, community, huggingface
Keywords_OpenSource ==
  <<
     <<"o","p","e","n"," ","s","o","u","r","c","e">>,
     <<"h","u","g","g","i","n","g"," ","f","a","c","e">>,
     <<"p","y","t","o","r","c","h">>,
     <<"t","e","n","s","o","r","f","l","o","w">>,
     <<"c","o","m","m","u","n","i","t","y">>,
     <<"h","u","g","g","i","n","g","f","a","c","e">>
  >>

\* keywords of the Search block: retrieval, rag, search, knowledge base, vector database, embedding, semantic search
Keywords_Search ==
  <<
     <<"r","e","t","r","i","e","v","a","l">>,
     <<"r","a","g">>,
     <<"s","e","a","r","c","h">>,
     <<"k","n","o","w","l","e","d","g","e"," ","b","a","s","e">>,
     <<"v","e","c","t","o","r"," ","d","a","t","a","b","a","s","e">>,
     <<"e","m","b","e","d","d","i","n","g">>,
     <<"s","e","m","a","n","t","i","c"," ","s","e","a","r","c","h">>
  >>

\* keywords of the Data block: dataset, data, annotation, labeling, synthetic data, pretraining
Keywords_Data ==
  <<
     <<"d","a","t","a","s","e","t">>,
     <<"d","a","t","a">>,
     <<"a","n","n","o","t","a","t","i","o","n">>,
     <<"l","a","b","e","l","i","n","g">>,
     <<"s","y","n","t","h","e","t","i","c"," ","d","a","t","a">>,
     <<"p","r","e","t","r","a","i","n","i","n","g">>
  >>

\* keywords of the Optimization block: optimization, training, fine-tuning, finetuning, learning rate, gradient, loss
Keywords_Optimization ==
  <<
     <<"o","p","t","i","m","i","z","a","t","i","o","n">>,
     <<"t","r","a","i","n","i","n","g">>,
     <<"f","i","n","e","-","t","u","n","i","n","g">>,
     <<"f","i","n","e","t","u","n","i","n","g">>,
     <<"l","e","a","r","n","i","n","g"," ","r","a","t","e">>,
     <<"g","r","a","d","i","e","n","t">>,
     <<"l","o","s","s">>
  >>

\* keywords of the Applications block: application, use case, product, tool, plugin, extension, integration
Keywords_Applications ==
  <<
     <<"a","p","p","l","i","c","a","t","i","o","n">>,
     <<"u","s","e"," ","c","a","s","e">>,
     <<"p","r","o","d","u","c","t">>,
     <<"t","o","o","l">>,
     <<"p","l","u","g","i","n">>,
     <<"e","x","t","e","n","s","i","o","n">>,
     <<"i","n","t","e","g","r","a","t","i","o","n">>
  >>

\* the twelve if-blocks of extract_topics, in source order
Rules ==
  <<
     [label |-> "LLM", keywords |-> Keywords_LLM],
     [label |-> "RL", keywords |-> Keywords_RL],
     [label |-> "Multimodal", keywords |-> Keywords_Multimodal],
     [label |-> "Systems", keywords |-> Keywords_Systems],
     [label |-> "Alignment", keywords |-> Keywords_Alignment],
     [label |-> "Agents", keywords |-> Keywords_Agents],
     [label |-> "Finance", keywords |-> Keywords_Finance],
     [label |-> "Open Source", keywords |-> Keywords_OpenSource],
     [label |-> "Search", keywords |-> Keywords_Search],
     [label |-> "Data", keywords |-> Keywords_Data],
     [label |-> "Optimization", keywords |-> Keywords_Optimization],
     [label |-> "Applications", keywords |-> Keywords_Applications]
  >>


RECURSIVE push_topics(_, _, _)
\* the if-blocks from block i on, each pushing its label onto the Vec topics
push_topics(text_lower, i, pushed) ==
  IF i > Len(Rules) THEN pushed
  ELSE push_topics(text_lower, i + 1,
         IF contains_any_keyword(text_lower, Rules[i].keywords)
         THEN Append(pushed, Rules[i].label)
         ELSE pushed)

\* format!("{} {}", title, summary.unwrap_or(""))
combined_text(title, summary) ==
  title \o <<" ">> \o (IF IsSome(summary) THEN Unwrap(summary) ELSE <<>>)

extract_topics(title, summary) ==
  push_topics(to_lowercase(combined_text(title, summary)), 1, <<>>)

(***************************************************************************)
(* sources/arxiv.rs: entry_to_item                                         *)
(*                                                                         *)
(* An Entry is [id, title, summary, published, authors, primary_category,  *)
(* categories]; id is the identifier URI as its '/'-separated segments;    *)
(* published is [rfc3339 |-> TRUE, instant |-> t] for a well-formed date   *)
(* and [rfc3339 |-> FALSE] otherwise.  The response text is the sequence   *)
(* of its <entry> elements, each [id, links], a link being one line        *)
(* [href |-> Option, title |-> Option].                                    *)
(***************************************************************************)

\* DateTime::parse_from_rfc3339(&entry.published).ok()
parse_from_rfc3339(published) ==
  IF published.rfc3339 THEN Some(published.instant) ELSE None

\* xml_text.find("<id>{id}</id>") up to the next "</entry>": the link lines
\* of the first entry element of the text that carries the id
entry_xml_links(xml_text, id) ==
  IF \E i \in DOMAIN xml_text : xml_text[i].id = id
  THEN Some(xml_text[CHOOSE i \in DOMAIN xml_text :
                       /\ xml_text[i].id = id
                       /\ \A j \in 1..(i - 1) : xml_text[j].id # id].links)
  ELSE None

RECURSIVE scan_links_prefers_non_abs(_, _, _, _)
\* a mutation of scan_links: a later link whose href has no "abs" replaces a
\* url whose href has it
scan_links_prefers_non_abs(links, i, url, pdf_url) ==
  IF i > Len(links) THEN [url |-> url, pdf_url |-> pdf_url]
  ELSE LET line == links[i]
           abs(h) == contains(h, <<"a","b","s">>)
       IN  IF ~IsSome(line.href)
           THEN scan_links_prefers_non_abs(links, i + 1, url, pdf_url)
           ELSE IF line.title = Some("pdf")
           THEN scan_links_prefers_non_abs(links, i + 1, url, line.href)
           ELSE IF url = None \/ (abs(Unwrap(url)) /\ ~abs(Unwrap(line.href)))
           THEN scan_links_prefers_non_abs(links, i + 1, line.href, pdf_url)
           ELSE scan_links_prefers_non_abs(links, i + 1, url, pdf_url)

RECURSIVE scan_links(_, _, _, _)
\* the loop over the lines of the entry (arxiv.rs:298-316)
scan_links(links, i, url, pdf_url) ==
  IF i > Len(links) THEN [url |-> url, pdf_url |-> pdf_url]
  ELSE LET line == links[i]
       IN  IF ~IsSome(line.href) THEN scan_links(links, i + 1, url, pdf_url)
           ELSE IF line.title = Some("pdf")
           THEN scan_links(links, i + 1, url, line.href)
           ELSE IF url = None /\ ~contains(Unwrap(line.href), <<"a","b","s">>)
           THEN scan_links(links, i + 1, line.href, pdf_url)
           ELSE IF url = None
           THEN scan_links(links, i + 1, line.href, pdf_url)
           ELSE scan_links(links, i + 1, url, pdf_url)

IsWhitespace(c) == c \in {" ", "\t", "\n", "\r"}

RECURSIVE trim_start(_)
trim_start(str) ==
  IF str # <<>> /\ IsWhitespace(Head(str)) THEN trim_start(Tail(str)) ELSE str

RECURSIVE trim_end(_)
trim_end(str) ==
  IF str # <<>> /\ IsWhitespace(str[Len(str)])
  THEN trim_end(SubSeq(str, 1, Len(str) - 1)) ELSE str

\* str::trim
trim(str) == trim_end(trim_start(str))

\* entry_to_item of arxiv.rs: None when the entry is dropped
arxiv_entry_to_item(entry, xml_text, source, uuid, now) ==
  LET external_id == entry.id[Len(entry.id)]
      categories == entry.primary_category \o entry.categories
      published_at == parse_from_rfc3339(entry.published)
      found == entry_xml_links(xml_text, entry.id)
      scan == IF IsSome(found) THEN scan_links(Unwrap(found), 1, None, None)
              ELSE [url |-> None, pdf_url |-> None]
  IN  IF ~IsSome(published_at) \/ ~IsSome(scan.url) THEN None
      ELSE Some([id |-> uuid,
                 source_id |-> source.id,
                 source_type |-> "paper",
                 title |-> trim(entry.title),
                 url |-> Unwrap(scan.url),
                 summary |-> IF IsSome(entry.summary)
                             THEN Some(trim(Unwrap(entry.summary))) ELSE None,
                 body |-> None,
                 published_at |-> Unwrap(published_at),
                 raw_metadata |-> [arxiv_id |-> external_id,
                                   categories |-> categories,
                                   authors |-> entry.authors,
                                   pdf_url |-> scan.pdf_url],
                 created_at |-> now,
                 updated_at |-> now])

RECURSIVE arxiv_filter_map_stops(_, _, _, _, _, _)
\* a mutation of arxiv_filter_map: the first dropped entry ends the list
arxiv_filter_map_stops(entries, i, xml_text, source, first_uuid, now) ==
  IF i > Len(entries) THEN <<>>
  ELSE LET item == arxiv_entry_to_item(entries[i], xml_text, source,
                                       first_uuid + i - 1, now)
       IN  IF item = None THEN <<>>
           ELSE item \o arxiv_filter_map_stops(entries, i + 1, xml_text, source,
                                               first_uuid, now)

RECURSIVE arxiv_filter_map(_, _, _, _, _, _)
\* entries.into_iter().filter_map(|entry| entry_to_item(...)).collect(); the
\* i-th entry draws the uuid first_uuid + i - 1
arxiv_filter_map(entries, i, xml_text, source, first_uuid, now) ==
  IF i > Len(entries) THEN <<>>
  ELSE arxiv_entry_to_item(entries[i], xml_text, source, first_uuid + i - 1, now)
         \o arxiv_filter_map(entries, i + 1, xml_text, source, first_uuid, now)

(***************************************************************************)
(* sources/rss.rs: entry_to_item                                           *)
(*                                                                         *)
(* An Entry is [id, title, links, summary, content, published, updated,    *)
(* authors, categories] with links [href, rel, media_type].                *)
(***************************************************************************)
SummaryLimit == 500
BodyLimit == 10000

DigitChars == <<"0","1","2","3","4","5","6","7","8","9">>

RECURSIVE format_number(_)
format_number(n) ==
  IF n < 10 THEN <<DigitChars[n + 1]>>
  ELSE format_number(n \div 10) \o <<DigitChars[(n % 10) + 1]>>

\* format!("Untitled ({})", now)
untitled(now) ==
  <<"U","n","t","i","t","l","e","d"," ","(">> \o format_number(now) \o <<")">>

\* the characters of the model that take two bytes in UTF-8
TwoByteChars == {"é"}

\* String::len: the length in bytes
str_len(str) == Len(str) + Cardinality({i \in DOMAIN str : str[i] \in TwoByteChars})

\* a mutation of truncate_chars: the limit counts bytes
truncate_bytes(body, limit) ==
  IF str_len(body) > limit
  THEN SubSeq(body, 1, IF Len(body) < limit THEN Len(body) ELSE limit)
         \o <<".",".",".">>
  ELSE body

\* body.chars().take(limit), "..." appended when that is shorter (in bytes)
\* than body
truncate_chars(body, limit) ==
  LET truncated == SubSeq(body, 1, IF Len(body) < limit THEN Len(body) ELSE limit)
  IN  IF str_len(truncated) < str_len(body) THEN truncated \o <<".",".",".">>
      ELSE body

\* the first link whose rel (alternate when absent) is alternate
first_alternate(links) ==
  LET alt(l) == (IF IsSome(l.rel) THEN Unwrap(l.rel) ELSE "alternate") = "alternate"
  IN  IF \E i \in DOMAIN links : alt(links[i])
      THEN Some(links[CHOOSE i \in DOMAIN links :
                        alt(links[i]) /\ \A j \in 1..(i - 1) : ~alt(links[j])].href)
      ELSE None

\* entry_to_item of rss.rs: None when the entry is dropped
rss_entry_to_item(entry, source, uuid, now) ==
  LET title == IF IsSome(entry.title) THEN Unwrap(entry.title) ELSE untitled(now)
      alternate == first_alternate(entry.links)
      url == IF IsSome(alternate) THEN alternate ELSE Some(entry.id)
      content_body == IF IsSome(entry.content) THEN Unwrap(entry.content).body ELSE None
      summary == IF IsSome(entry.summary) THEN entry.summary
                 ELSE IF IsSome(content_body)
                 THEN Some(truncate_chars(Unwrap(content_body), SummaryLimit))
                 ELSE None
      body == IF IsSome(content_body)
              THEN Some(truncate_chars(Unwrap(content_body), BodyLimit))
              ELSE None
      published_at == IF IsSome(entry.published) THEN Unwrap(entry.published)
                      ELSE IF IsSome(entry.updated) THEN Unwrap(entry.updated)
                      ELSE now
      base == [feed_id |-> entry.id, authors |-> entry.authors,
               categories |-> entry.categories]
      metadata == IF entry.links # <<>>
                  THEN [feed_id |-> entry.id, authors |-> entry.authors,
                        categories |-> entry.categories,
                        links |-> SubSeq(entry.links, 1,
                                         IF Len(entry.links) < 3
                                         THEN Len(entry.links) ELSE 3)]
                  ELSE base
  IN  IF ~IsSome(url) THEN None
      ELSE Some([id |-> uuid,
                 source_id |-> source.id,
                 source_type |-> source.medium,
                 title |-> title,
                 url |-> Unwrap(url),
                 summary |-> summary,
                 body |-> body,
                 published_at |-> published_at,
                 raw_metadata |-> metadata,
                 created_at |-> now,
                 updated_at |-> now])

RECURSIVE rss_filter_map(_, _, _, _, _)
\* feed.entries.into_iter().filter_map(|entry| entry_to_item(...)).collect()
rss_filter_map(entries, i, source, first_uuid, now) ==
  IF i > Len(entries) THEN <<>>
  ELSE rss_entry_to_item(entries[i], source, first_uuid + i - 1, now)
         \o rss_filter_map(entries, i + 1, source, first_uuid, now)

(***************************************************************************)
(* Inputs of the classifier: texts assembled from fragments, so that       *)
(* keywords occur in upper case, inside longer words, across the fragment  *)
(* boundary and across the title/summary boundary; and the inputs of the   *)
(* unit tests of topics.rs.                                                *)
(***************************************************************************)
MaxFrags == 2

Fragments ==
  { <<"G","P","T","-","4">>,                                   \* "GPT-4"
    <<"L","a","r","g","e"," ","l","a","n","g","u","a","g","e">>, \* "Large language"
    <<"m","o","d","e","l">>,                                   \* "model"
    <<"C","u">>,                                               \* "Cu"
    <<"r","l">>,                                               \* "rl"
    <<"R">>,                                                   \* "R"
    <<"L">>,                                                   \* "L"
    <<"T","o","o","l">>,                                       \* "Tool"
    <<"c","o","o","k","i","n","g">> }                          \* "cooking"

RECURSIVE FragTexts(_)
\* the concatenations of at most n fragments
FragTexts(n) ==
  IF n = 0 THEN {<<>>}
  ELSE LET shorter == FragTexts(n - 1)
       IN  shorter \cup {t \o f : t \in shorter, f \in Fragments}

\* "GPT-4 Large Language Models" (test_extract_llm_topics)
TestTitleLLM ==
  <<"G","P","T","-","4"," ","L","a","r","g","e"," ","L","a","n","g","u","a","g","e",
    " ","M","o","d","e","l","s">>

\* "A new LLM model" (test_extract_llm_topics)
TestSummaryLLM ==
  <<"A"," ","n","e","w"," ","L","L","M"," ","m","o","d","e","l">>

\* "Random article about cooking" (test_extract_no_topics)
TestTitleNone ==
  <<"R","a","n","d","o","m"," ","a","r","t","i","c","l","e"," ","a","b","o","u","t",
    " ","c","o","o","k","i","n","g">>

TitleInputs == FragTexts(MaxFrags) \cup {TestTitleLLM, TestTitleNone}

SummaryInputs ==
  {None, Some(TestSummaryLLM), Some(<<"m","o","d","e","l">>), Some(<<"l">>)}

InitClassifier ==
  /\ InitStore
  /\ InitCalls
  /\ InitNoRun
  /\ InitNoParser
  /\ cl_title \in TitleInputs
  /\ cl_summary \in SummaryInputs
  /\ cl_topics = None

\* a call extract_topics(cl_title, cl_summary)
ExtractTopics ==
  /\ cl_topics = None
  /\ cl_topics' = Some(extract_topics(cl_title, cl_summary))
  /\ UNCHANGED <<cl_title, cl_summary, storeVars, callVars, parserVars, runVars>>

NextTopics == ExtractTopics

SpecTopics == InitClassifier /\ [][NextTopics]_vars


(***************************************************************************)
(* db.rs: get_active_sources                                               *)
(***************************************************************************)

CharRank(c) ==
  IF \E i \in DOMAIN LowerChars : LowerChars[i] = c
  THEN CHOOSE i \in DOMAIN LowerChars : LowerChars[i] = c
  ELSE 0

RECURSIVE name_less(_, _)
\* the order of ORDER BY name on the names the model uses (lower-case letters)
name_less(a, b) ==
  IF a = <<>> THEN b # <<>>
  ELSE IF b = <<>> THEN FALSE
  ELSE IF Head(a) = Head(b) THEN name_less(Tail(a), Tail(b))
  ELSE CharRank(Head(a)) < CharRank(Head(b))

RECURSIVE order_by_name(_)
order_by_name(rows) ==
  IF rows = {} THEN <<>>
  ELSE LET first == CHOOSE r \in rows :
                      \A o \in rows \ {r} : ~name_less(o.name, r.name)
       IN  <<first>> \o order_by_name(rows \ {first})

RECURSIVE order_by_id(_)
order_by_id(rows) ==
  IF rows = {} THEN <<>>
  ELSE LET first == CHOOSE r \in rows : \A o \in rows : r.id <= o.id
       IN  <<first>> \o order_by_id(rows \ {first})

\* a mutation of get_active_sources: ORDER BY id
get_active_sources_by_id(rows) == order_by_id({r \in rows : r.active})

\* SELECT * FROM sources WHERE active = true ORDER BY name
get_active_sources(rows) == order_by_name({r \in rows : r.active})

(***************************************************************************)
(* The configured sources and what their feeds serve.                      *)
(***************************************************************************)
MaxCycles == 2
MaxFaults == 1

Source(id, name, source_type, medium, ingest_url, active) ==
  [id |-> id, name |-> name, source_type |-> source_type, medium |-> medium,
   ingest_url |-> ingest_url, active |-> active]

\* an academic feed and a blog feed; by name the academic feed comes first
TableArxivRss ==
  { Source(1, <<"b">>, "rss", "blog", Some("http://blog/feed"), TRUE),
    Source(2, <<"a">>, "arxiv", "paper", Some("http://export/api/query"), TRUE) }

\* the same two with the blog feed first
TableRssArxiv ==
  { Source(1, <<"a">>, "rss", "newsletter", Some("http://blog/feed"), TRUE),
    Source(2, <<"b">>, "arxiv", "paper", Some("http://export/api/query"), TRUE) }

\* sources without a parser or without an ingest_url, then an academic feed,
\* and an inactive source
TableNoOps ==
  { Source(1, <<"e">>, "twitter_api", "tweet", None, TRUE),
    Source(2, <<"d">>, "manual", "blog", None, TRUE),
    Source(3, <<"c">>, "mastodon", "blog", Some("http://social/feed"), TRUE),
    Source(4, <<"b">>, "arxiv", "paper", None, TRUE),
    Source(5, <<"a">>, "rss", "blog", None, TRUE),
    Source(6, <<"f">>, "arxiv", "paper", Some("http://export/api/query"), TRUE),
    Source(7, <<"g">>, "rss", "blog", Some("http://blog/feed"), FALSE) }

\* no active source
TableInactive ==
  { Source(1, <<"a">>, "arxiv", "paper", Some("http://export/api/query"), FALSE) }

SourceTables == {TableArxivRss, TableRssArxiv, TableNoOps, TableInactive}

Valid(t) == [rfc3339 |-> TRUE, instant |-> t]
Invalid == [rfc3339 |-> FALSE]

\* the response of the academic feed: three entries, the second with a
\* malformed date
ArxivDocFirst ==
  [entries |->
     << [id |-> <<"http:", "", "arxiv.org", "abs", "1">>,
         title |-> <<" ","G","P","T","-","4"," ","r","l">>,       \* " GPT-4 rl"
         summary |-> Some(<<"m","o","d","e","l","\n">>),         \* "model\n"
         published |-> Valid(1), authors |-> <<"Ada">>,
         primary_category |-> Some("q-fin.GN"), categories |-> <<"q-fin.GN">>],
        [id |-> <<"http:", "", "arxiv.org", "abs", "2">>,
         title |-> <<"G","P","T">>, summary |-> None,
         published |-> Invalid, authors |-> <<>>,
         primary_category |-> None, categories |-> <<>>],
        [id |-> <<"http:", "", "arxiv.org", "abs", "3">>,
         title |-> <<"c","o","o","k","i","n","g">>, summary |-> None,
         published |-> Valid(2), authors |-> <<>>,
         primary_category |-> None, categories |-> <<"cs.AI">>] >>,
   xml_text |->
     << [id |-> <<"http:", "", "arxiv.org", "abs", "1">>,
         links |-> << [href |-> Some(<<"/","a","b","s","/","1">>), title |-> None],
                      [href |-> Some(<<"/","p","d","f","/","1">>), title |-> Some("pdf")] >>],
        [id |-> <<"http:", "", "arxiv.org", "abs", "2">>,
         links |-> << [href |-> Some(<<"/","a","b","s","/","2">>), title |-> None] >>],
        [id |-> <<"http:", "", "arxiv.org", "abs", "3">>,
         links |-> << [href |-> Some(<<"/","a","b","s","/","3">>), title |-> None] >>] >>]

\* a later response: the first entry again, revised
ArxivDocRevised ==
  [entries |->
     << [id |-> <<"http:", "", "arxiv.org", "abs", "1">>,
         title |-> <<"T","o","o","l">>,                          \* "Tool"
         summary |-> Some(<<"r","l">>),                          \* "rl"
         published |-> Valid(1), authors |-> <<"Ada">>,
         primary_category |-> Some("q-fin.GN"), categories |-> <<"q-fin.GN">>] >>,
   xml_text |->
     << [id |-> <<"http:", "", "arxiv.org", "abs", "1">>,
         links |-> << [href |-> Some(<<"/","a","b","s","/","1">>), title |-> None] >>] >>]

ArxivDocs == {ArxivDocFirst, ArxivDocRevised}

\* the response of the blog feed: an entry with a link and a content body, and
\* an entry with neither title nor link, whose id is a URL of the academic feed
RssDocFirst ==
  [entries |->
     << [id |-> <<"p","1">>, title |-> Some(<<"G","P","T","-","4">>),
         links |-> << [href |-> <<"/","p","o","s","t","/","1">>, rel |-> None,
                       media_type |-> None] >>,
         summary |-> None,
         content |-> Some([body |-> Some(<<"c","o","o","k","i","n","g">>)]),
         published |-> Some(3), updated |-> None,
         authors |-> <<>>, categories |-> <<>>],
        [id |-> <<"/","a","b","s","/","1">>, title |-> None,
         links |-> <<>>,
         summary |-> Some(<<"r","l">>),
         content |-> None,
         published |-> None, updated |-> None,
         authors |-> <<>>, categories |-> <<>>] >>]

RssDocs == {RssDocFirst}

(***************************************************************************)
(* main.rs: ingestion_loop; sources/mod.rs: run_ingestion_cycle;           *)
(* sources/arxiv.rs: run_arxiv_ingestion; sources/rss.rs:                  *)
(* run_rss_ingestion.  One action per await of the storage or the network. *)
(***************************************************************************)

Ok(count) == [ok |-> TRUE, count |-> count]
Err == [ok |-> FALSE, count |-> 0]

Init ==
  /\ InitStore
  /\ InitCalls
  /\ InitNoClassifier
  /\ InitNoParser
  /\ sources \in SourceTables
  /\ pc = "loop"
  /\ sources_vec = <<>>
  /\ idx = 1
  /\ total_inserted = 0
  /\ feed_items = <<>>
  /\ inserted = 0
  /\ cur_item = None
  /\ topics = <<>>
  /\ cycle_result = None
  /\ cycles = 0
  /\ faults = 0
  /\ log = <<>>

otherVars == <<item_likes, call, upserted, accepted, classifierVars, parserVars,
              sources>>

\* the source the for loop of run_ingestion_cycle is at
Current == sources_vec[idx]

\* a mutation of CycleQueryFails: ingestion_loop returns the error
CycleQueryFails_exits ==
  /\ pc = "loop"
  /\ cycles < MaxCycles
  /\ faults < MaxFaults
  /\ faults' = faults + 1
  /\ cycles' = cycles + 1
  /\ cycle_result' = Some(Err)
  /\ log' = <<[ev |-> "get_active_sources", ok |-> FALSE]>>
  /\ sources_vec' = <<>>
  /\ idx' = 1
  /\ pc' = "exit"
  /\ UNCHANGED <<storeVars, otherVars, total_inserted, feed_items, inserted,
                 cur_item, topics>>

\* get_active_sources fails: run_ingestion_cycle returns the error
CycleQueryFails ==
  /\ pc = "loop"
  /\ cycles < MaxCycles
  /\ faults < MaxFaults
  /\ faults' = faults + 1
  /\ cycles' = cycles + 1
  /\ cycle_result' = Some(Err)
  /\ log' = <<[ev |-> "get_active_sources", ok |-> FALSE]>>
  /\ sources_vec' = <<>>
  /\ idx' = 1
  /\ pc' = "sleep"
  /\ UNCHANGED <<storeVars, otherVars, total_inserted, feed_items, inserted,
                 cur_item, topics>>

\* get_active_sources returns no source: Ok(0)
CycleNoSources ==
  /\ pc = "loop"
  /\ cycles < MaxCycles
  /\ get_active_sources(sources) = <<>>
  /\ cycles' = cycles + 1
  /\ cycle_result' = Some(Ok(0))
  /\ log' = <<[ev |-> "get_active_sources", ok |-> TRUE]>>
  /\ sources_vec' = <<>>
  /\ idx' = 1
  /\ pc' = "sleep"
  /\ UNCHANGED <<storeVars, otherVars, total_inserted, feed_items, inserted,
                 cur_item, topics, faults>>

\* get_active_sources returns the sources: the for loop starts
CycleBegins ==
  /\ pc = "loop"
  /\ cycles < MaxCycles
  /\ get_active_sources(sources) # <<>>
  /\ cycles' = cycles + 1
  /\ sources_vec' = get_active_sources(sources)
  /\ idx' = 1
  /\ total_inserted' = 0
  /\ log' = <<[ev |-> "get_active_sources", ok |-> TRUE]>>
  /\ pc' = "dispatch"
  /\ UNCHANGED <<storeVars, otherVars, feed_items, inserted, cur_item, topics,
                 cycle_result, faults>>

\* a mutation of SourceResult: an Err ends the cycle with that error
SourceResult_propagates(result, events) ==
  /\ log' = log \o events
              \o <<[ev |-> "result", source_id |-> Current.id, result |-> result]>>
  /\ total_inserted' = total_inserted + result.count
  /\ idx' = idx + 1
  /\ IF result.ok
     THEN pc' = "dispatch" /\ UNCHANGED cycle_result
     ELSE pc' = "sleep" /\ cycle_result' = Some(Err)

\* a mutation of SourceResult: the count is not added
SourceResult_drops_count(result, events) ==
  /\ log' = log \o events
              \o <<[ev |-> "result", source_id |-> Current.id, result |-> result]>>
  /\ total_inserted' = total_inserted
  /\ idx' = idx + 1
  /\ pc' = "dispatch"
  /\ UNCHANGED cycle_result

\* match result { Ok(count) => total_inserted += count, Err(e) => log } and on
\* to the next source (mod.rs:46-56); events are the calls made to get result
SourceResult(result, events) ==
  /\ log' = log \o events
              \o <<[ev |-> "result", source_id |-> Current.id, result |-> result]>>
  /\ total_inserted' = IF result.ok THEN total_inserted + result.count
                       ELSE total_inserted
  /\ idx' = idx + 1
  /\ pc' = "dispatch"
  /\ UNCHANGED cycle_result

AtSource == pc = "dispatch" /\ idx <= Len(sources_vec)

\* a mutation of DispatchManual: the arm returns an error
DispatchManual_fails ==
  /\ AtSource
  /\ Current.source_type = "manual"
  /\ SourceResult(Err, <<>>)
  /\ UNCHANGED <<storeVars, otherVars, sources_vec, feed_items, inserted,
                 cur_item, topics, cycles, faults>>

\* the arm "twitter_api" => Ok(0)
DispatchTwitterApi ==
  /\ AtSource
  /\ Current.source_type = "twitter_api"
  /\ SourceResult(Ok(0), <<>>)
  /\ UNCHANGED <<storeVars, otherVars, sources_vec, feed_items, inserted,
                 cur_item, topics, cycles, faults>>

\* the arm "manual" => Ok(0)
DispatchManual ==
  /\ AtSource
  /\ Current.source_type = "manual"
  /\ SourceResult(Ok(0), <<>>)
  /\ UNCHANGED <<storeVars, otherVars, sources_vec, feed_items, inserted,
                 cur_item, topics, cycles, faults>>

\* the arm unknown => Ok(0)
DispatchUnknown ==
  /\ AtSource
  /\ Current.source_type \notin {"arxiv", "rss", "twitter_api", "manual"}
  /\ SourceResult(Ok(0), <<>>)
  /\ UNCHANGED <<storeVars, otherVars, sources_vec, feed_items, inserted,
                 cur_item, topics, cycles, faults>>

\* the arm "arxiv": run_arxiv_ingestion returns Ok(0) when ingest_url is None
ArxivNoIngestUrl ==
  /\ AtSource
  /\ Current.source_type = "arxiv"
  /\ Current.ingest_url = None
  /\ SourceResult(Ok(0), <<>>)
  /\ UNCHANGED <<storeVars, otherVars, sources_vec, feed_items, inserted,
                 cur_item, topics, cycles, faults>>

\* the arm "rss": run_rss_ingestion returns Ok(0) when ingest_url is None
RssNoIngestUrl ==
  /\ AtSource
  /\ Current.source_type = "rss"
  /\ Current.ingest_url = None
  /\ SourceResult(Ok(0), <<>>)
  /\ UNCHANGED <<storeVars, otherVars, sources_vec, feed_items, inserted,
                 cur_item, topics, cycles, faults>>

\* a mutation of ArxivFetchFails: the first item of the response is upserted
\* before the failure is returned
ArxivFetchFails_partial ==
  /\ AtSource
  /\ Current.source_type = "arxiv"
  /\ IsSome(Current.ingest_url)
  /\ faults < MaxFaults
  /\ faults' = faults + 1
  /\ \E doc \in ArxivDocs :
       LET its == arxiv_filter_map(doc.entries, 1, doc.xml_text, Current,
                                   next_uuid, clock)
       IN  items' = IF its # <<>> THEN insert_or_update_item(items, its[1])
                    ELSE items
  /\ SourceResult(Err, <<[ev |-> "fetch", source_id |-> Current.id, ok |-> FALSE]>>)
  /\ UNCHANGED <<item_topics, next_uuid, clock, otherVars, sources_vec, feed_items,
                 inserted, cur_item, topics, cycles>>

\* fetch_arxiv_items fails (the request, or the decoding of the feed)
ArxivFetchFails ==
  /\ AtSource
  /\ Current.source_type = "arxiv"
  /\ IsSome(Current.ingest_url)
  /\ faults < MaxFaults
  /\ faults' = faults + 1
  /\ SourceResult(Err, <<[ev |-> "fetch", source_id |-> Current.id, ok |-> FALSE]>>)
  /\ UNCHANGED <<storeVars, otherVars, sources_vec, feed_items, inserted,
                 cur_item, topics, cycles>>

\* fetch_arxiv_items returns the items of a response
ArxivFetch ==
  /\ AtSource
  /\ Current.source_type = "arxiv"
  /\ IsSome(Current.ingest_url)
  /\ \E doc \in ArxivDocs :
       /\ feed_items' = arxiv_filter_map(doc.entries, 1, doc.xml_text, Current,
                                         next_uuid, clock)
       /\ next_uuid' = next_uuid + Len(doc.entries)
  /\ clock' = clock + 1
  /\ inserted' = 0
  /\ log' = Append(log, [ev |-> "fetch", source_id |-> Current.id, ok |-> TRUE,
                          items |-> feed_items'])
  /\ pc' = "arxiv_items"
  /\ UNCHANGED <<items, item_topics, otherVars, sources_vec, idx, total_inserted,
                 cur_item, topics, cycle_result, cycles, faults>>

\* fetch_rss_items fails
RssFetchFails ==
  /\ AtSource
  /\ Current.source_type = "rss"
  /\ IsSome(Current.ingest_url)
  /\ faults < MaxFaults
  /\ faults' = faults + 1
  /\ SourceResult(Err, <<[ev |-> "fetch", source_id |-> Current.id, ok |-> FALSE]>>)
  /\ UNCHANGED <<storeVars, otherVars, sources_vec, feed_items, inserted,
                 cur_item, topics, cycles>>

\* fetch_rss_items returns the items of a response
RssFetch ==
  /\ AtSource
  /\ Current.source_type = "rss"
  /\ IsSome(Current.ingest_url)
  /\ \E doc \in RssDocs :
       /\ feed_items' = rss_filter_map(doc.entries, 1, Current, next_uuid, clock)
       /\ next_uuid' = next_uuid + Len(doc.entries)
  /\ clock' = clock + 1
  /\ inserted' = 0
  /\ log' = Append(log, [ev |-> "fetch", source_id |-> Current.id, ok |-> TRUE,
                          items |-> feed_items'])
  /\ pc' = "rss_items"
  /\ UNCHANGED <<items, item_topics, otherVars, sources_vec, idx, total_inserted,
                 cur_item, topics, cycle_result, cycles, faults>>

\* a mutation of arxiv_loop_body: a failed upsert is counted too
arxiv_loop_body_counts_failures(rows, item, n, db_ok) ==
  IF db_ok
  THEN [rows |-> insert_or_update_item(rows, item), inserted |-> n + 1,
        topics |-> extract_topics(item.title, item.summary)]
  ELSE [rows |-> rows, inserted |-> n + 1, topics |-> <<>>]

\* the body of the for loop of run_arxiv_ingestion up to the loop over the
\* topics (arxiv.rs:100-106): the table, inserted and the topics to add
arxiv_loop_body(rows, item, n, db_ok) ==
  IF db_ok
  THEN [rows |-> insert_or_update_item(rows, item), inserted |-> n + 1,
        topics |-> extract_topics(item.title, item.summary)]
  ELSE [rows |-> rows, inserted |-> n, topics |-> <<>>]

\* the body of the for loop of run_rss_ingestion (rss.rs:28-32)
rss_loop_body(rows, item, n, db_ok) ==
  IF db_ok
  THEN [rows |-> insert_or_update_item(rows, item), inserted |-> n + 1,
        topics |-> <<>>]
  ELSE [rows |-> rows, inserted |-> n, topics |-> <<>>]

\* a mutation of ArxivUpsertItem: a failed upsert ends the source with the error
ArxivUpsertItem_fatal ==
  /\ pc = "arxiv_items"
  /\ feed_items # <<>>
  /\ \E db_ok \in BOOLEAN :
       LET item == Head(feed_items)
           body == arxiv_loop_body(items, item, inserted, db_ok)
           event == [ev |-> "upsert", source_id |-> Current.id, item |-> item,
                     ok |-> db_ok]
       IN  /\ db_ok \/ faults < MaxFaults
           /\ faults' = IF db_ok THEN faults ELSE faults + 1
           /\ items' = body.rows
           /\ topics' = body.topics
           /\ cur_item' = Some(item)
           /\ IF db_ok
              THEN /\ inserted' = body.inserted
                   /\ pc' = IF body.topics # <<>> THEN "arxiv_topics" ELSE "arxiv_items"
                   /\ log' = Append(log, event)
                   /\ feed_items' = Tail(feed_items)
                   /\ UNCHANGED <<idx, total_inserted, cycle_result>>
              ELSE /\ SourceResult(Err, <<event>>)
                   /\ inserted' = 0
                   /\ feed_items' = <<>>
  /\ UNCHANGED <<item_topics, next_uuid, clock, otherVars, sources_vec, cycles>>

\* run_arxiv_ingestion: insert_or_update_item for the next item
ArxivUpsertItem ==
  /\ pc = "arxiv_items"
  /\ feed_items # <<>>
  /\ \E db_ok \in BOOLEAN :
       LET item == Head(feed_items)
           body == arxiv_loop_body(items, item, inserted, db_ok)
       IN  /\ db_ok \/ faults < MaxFaults
           /\ faults' = IF db_ok THEN faults ELSE faults + 1
           /\ items' = body.rows
           /\ inserted' = body.inserted
           /\ topics' = body.topics
           /\ cur_item' = Some(item)
           /\ pc' = IF body.topics # <<>> THEN "arxiv_topics" ELSE "arxiv_items"
           /\ log' = Append(log, [ev |-> "upsert", source_id |-> Current.id,
                                  item |-> item, ok |-> db_ok])
  /\ feed_items' = Tail(feed_items)
  /\ UNCHANGED <<item_topics, next_uuid, clock, otherVars, sources_vec, idx,
                 total_inserted, cycle_result, cycles>>

\* run_arxiv_ingestion: add_item_topic for the next topic of the item, with
\* item.id (arxiv.rs:108).  When no row of items has that id the statement is
\* rejected if the schema declares the foreign key and accepted if not: both
\* outcomes are possible, and the rejection is no fault of the storage.
ArxivAddTopic ==
  /\ pc = "arxiv_topics"
  /\ topics # <<>>
  /\ \E db_ok \in BOOLEAN :
       LET res == add_item_topic(item_topics, Unwrap(cur_item).id, Head(topics), db_ok)
           stored == \E r \in items : r.id = Unwrap(cur_item).id
       IN  /\ db_ok \/ faults < MaxFaults \/ ~stored
           /\ faults' = IF db_ok \/ ~stored THEN faults ELSE faults + 1
           /\ item_topics' = res.rows
           /\ log' = Append(log, [ev |-> "topic", item_id |-> Unwrap(cur_item).id,
                                  topic |-> Head(topics), ok |-> res.ok])
  /\ topics' = Tail(topics)
  /\ pc' = IF Tail(topics) # <<>> THEN "arxiv_topics" ELSE "arxiv_items"
  /\ UNCHANGED <<items, next_uuid, clock, otherVars, sources_vec, idx,
                 total_inserted, feed_items, inserted, cur_item, cycle_result,
                 cycles>>

\* run_arxiv_ingestion returns Ok(inserted)
ArxivDone ==
  /\ pc = "arxiv_items"
  /\ feed_items = <<>>
  /\ SourceResult(Ok(inserted), <<>>)
  /\ inserted' = 0
  /\ cur_item' = None
  /\ UNCHANGED <<storeVars, otherVars, sources_vec, feed_items, topics, cycles,
                 faults>>

\* run_rss_ingestion: insert_or_update_item for the next item
RssUpsertItem ==
  /\ pc = "rss_items"
  /\ feed_items # <<>>
  /\ \E db_ok \in BOOLEAN :
       LET item == Head(feed_items)
           body == rss_loop_body(items, item, inserted, db_ok)
       IN  /\ db_ok \/ faults < MaxFaults
           /\ faults' = IF db_ok THEN faults ELSE faults + 1
           /\ items' = body.rows
           /\ inserted' = body.inserted
           /\ topics' = body.topics
           /\ log' = Append(log, [ev |-> "upsert", source_id |-> Current.id,
                                  item |-> item, ok |-> db_ok])
  /\ feed_items' = Tail(feed_items)
  /\ UNCHANGED <<item_topics, next_uuid, clock, otherVars, sources_vec, idx,
                 total_inserted, cur_item, cycle_result, cycles, pc>>

\* run_rss_ingestion returns Ok(inserted)
RssDone ==
  /\ pc = "rss_items"
  /\ feed_items = <<>>
  /\ SourceResult(Ok(inserted), <<>>)
  /\ inserted' = 0
  /\ UNCHANGED <<storeVars, otherVars, sources_vec, feed_items, cur_item, topics,
                 cycles, faults>>

\* the for loop of run_ingestion_cycle is over: Ok(total_inserted)
CycleDone ==
  /\ pc = "dispatch"
  /\ idx > Len(sources_vec)
  /\ cycle_result' = Some(Ok(total_inserted))
  /\ pc' = "sleep"
  /\ UNCHANGED <<storeVars, otherVars, sources_vec, idx, total_inserted,
                 feed_items, inserted, cur_item, topics, cycles, faults, log>>

\* sleep(ingestion_interval_secs), then the next iteration of the loop
Sleep ==
  /\ pc = "sleep"
  /\ pc' = "loop"
  /\ clock' = clock + 1
  /\ UNCHANGED <<items, item_topics, next_uuid, otherVars, sources_vec, idx,
                 total_inserted, feed_items, inserted, cur_item, topics,
                 cycle_result, cycles, faults, log>>

Next ==
  \/ CycleQueryFails
  \/ CycleNoSources
  \/ CycleBegins
  \/ DispatchTwitterApi
  \/ DispatchManual
  \/ DispatchUnknown
  \/ ArxivNoIngestUrl
  \/ RssNoIngestUrl
  \/ ArxivFetchFails
  \/ ArxivFetch
  \/ RssFetchFails
  \/ RssFetch
  \/ ArxivUpsertItem
  \/ ArxivAddTopic
  \/ ArxivDone
  \/ RssUpsertItem
  \/ RssDone
  \/ CycleDone
  \/ Sleep

Spec == Init /\ [][Next]_vars

(***************************************************************************)
(* db.rs: get_or_create_source, called between the cycles of the pipeline. *)
(***************************************************************************)

\* INSERT INTO sources ... ON CONFLICT (name, type) DO UPDATE SET medium,
\* ingest_url (db.rs:77-81); a new row gets the next serial id and is active
get_or_create_source(rows, name, source_type, medium, ingest_url) ==
  IF \E r \in rows : r.name = name /\ r.source_type = source_type
  THEN {IF r.name = name /\ r.source_type = source_type
        THEN [r EXCEPT !.medium = medium, !.ingest_url = ingest_url]
        ELSE r : r \in rows}
  ELSE rows \cup {Source(Cardinality(rows) + 1, name, source_type, medium,
                         ingest_url, TRUE)}

\* the media the calls give: one per type
MediumInput(source_type) == IF source_type = "arxiv" THEN "preprint" ELSE "podcast"

\* a call get_or_create_source(pool, name, type, medium, ingest_url, meta):
\* for an active source that has a parser, with a new medium and its
\* ingest_url; or, while there is a single source, for a new feed
GetOrCreateSourceCall ==
  /\ pc = "loop"
  /\ cycles < MaxCycles
  /\ \/ \E r \in sources :
          /\ r.active
          /\ r.source_type \in {"arxiv", "rss"}
          /\ sources' = get_or_create_source(sources, r.name, r.source_type,
                                             MediumInput(r.source_type), r.ingest_url)
     \/ /\ Cardinality(sources) = 1
        /\ sources' = get_or_create_source(sources, <<"z">>, "rss", "podcast",
                                           Some("http://blog/feed"))
  /\ sources' # sources
  /\ UNCHANGED <<storeVars, callVars, classifierVars, parserVars, pc, sources_vec,
                 idx, total_inserted, feed_items, inserted, cur_item, topics,
                 cycle_result, cycles, faults, log>>

NextSources == Next \/ GetOrCreateSourceCall

SpecSources == Init /\ [][NextSources]_vars

\* where control of ingestion_loop and of run_ingestion_cycle goes next
Control ==
  \/ /\ pc = "loop"
     /\ cycles < MaxCycles
     /\ cycles' = cycles + 1
     /\ idx' = 1
     /\ pc' \in {"dispatch", "sleep"}
  \/ /\ pc = "dispatch"
     /\ idx <= Len(sources_vec)
     /\ \/ idx' = idx + 1 /\ pc' = "dispatch"
        \/ idx' = idx /\ pc' \in {"arxiv_items", "rss_items"}
     /\ cycles' = cycles
  \/ /\ pc = "dispatch"
     /\ idx > Len(sources_vec)
     /\ pc' = "sleep"
     /\ UNCHANGED <<idx, cycles>>
  \/ /\ pc \in {"arxiv_items", "rss_items"}
     /\ feed_items = <<>>
     /\ pc' = "dispatch"
     /\ idx' = idx + 1
     /\ cycles' = cycles
  \/ /\ pc = "sleep"
     /\ pc' = "loop"
     /\ UNCHANGED <<idx, cycles>>

\* the for loop of a parser takes its next item
TakesItem ==
  /\ pc \in {"arxiv_items", "rss_items"}
  /\ feed_items # <<>>
  /\ feed_items' = Tail(feed_items)

\* the for loop over the topics of an item takes its next topic
TakesTopic ==
  /\ pc = "arxiv_topics"
  /\ topics # <<>>
  /\ topics' = Tail(topics)

\* the single task of main.rs runs on: every await of ingestion_loop and of
\* what it calls completes (a reply, an error or a timeout of the storage or
\* of the network; the sleep), so that control moves on and the loops over
\* the items and over the topics advance
SpecLive ==
  /\ Init
  /\ [][Next]_vars
  /\ WF_<<pc, idx, cycles>>(Control)
  /\ WF_feed_items(TakesItem)
  /\ WF_topics(TakesTopic)

(***************************************************************************)
(* sources/arxiv.rs: fetch_arxiv_items on decoded responses.  A response   *)
(* has three entries; the second one carries any list of at most MaxLinks  *)
(* link lines and a well-formed or malformed date, and its section of the  *)
(* text is present or missing; the first one has a well-formed or          *)
(* malformed date.  One link element per line, as the API serves them.     *)
(***************************************************************************)
MaxLinks == 3

LinkInputs ==
  { [href |-> Some(<<"A">>), title |-> Some("abs")],
    [href |-> Some(<<"B">>), title |-> Some("pdf")],
    [href |-> Some(<<"C">>), title |-> None],
    [href |-> Some(<<"/","a","b","s","/","2">>), title |-> None],
    [href |-> Some(<<"/","p","d","f","/","2">>), title |-> Some("pdf")],
    [href |-> None, title |-> None],
    [href |-> None, title |-> Some("pdf")] }

RECURSIVE LinkLists(_)
\* the lists of at most n link lines
LinkLists(n) ==
  IF n = 0 THEN {<<>>}
  ELSE LET shorter == LinkLists(n - 1)
       IN  shorter \cup {Append(l, x) : l \in shorter, x \in LinkInputs}

ArxivId(n) == <<"http:", "", "arxiv.org", "abs", n>>

ArxivEntry(n, published) ==
  [id |-> ArxivId(n), title |-> <<"T">>, summary |-> None,
   published |-> published, authors |-> <<>>,
   primary_category |-> None, categories |-> <<>>]

ArxivSection(n, links) == [id |-> ArxivId(n), links |-> links]

ArxivSource ==
  Source(1, <<"a">>, "arxiv", "paper", Some("http://export/api/query"), TRUE)

ArxivResponses ==
  { [entries |-> << ArxivEntry("1", first), ArxivEntry("2", second),
                    ArxivEntry("3", Valid(3)) >>,
     xml_text |->
       << ArxivSection("1", <<[href |-> Some(<<"/","a","b","s","/","1">>),
                               title |-> None]>>) >>
       \o (IF located THEN <<ArxivSection("2", links)>> ELSE <<>>)
       \o << ArxivSection("3", <<[href |-> Some(<<"/","a","b","s","/","3">>),
                                  title |-> None]>>) >>] :
      first \in {Valid(1), Invalid}, second \in {Valid(2), Invalid},
      located \in BOOLEAN, links \in LinkLists(MaxLinks) }

InitArxivFeed ==
  /\ InitStore
  /\ InitCalls
  /\ InitNoClassifier
  /\ InitNoRun
  /\ feed \in {Some(r) : r \in ArxivResponses}
  /\ parsed = None

\* fetch_arxiv_items from the decoded response on: Ok(items)
FetchArxivItems ==
  /\ parsed = None
  /\ LET doc == Unwrap(feed)
     IN  /\ parsed' = Some(arxiv_filter_map(doc.entries, 1, doc.xml_text,
                                            ArxivSource, next_uuid, clock))
         /\ next_uuid' = next_uuid + Len(doc.entries)
  /\ clock' = clock + 1
  /\ UNCHANGED <<items, item_topics, item_likes, feed, callVars, classifierVars,
                 runVars>>

NextArxivFeed == FetchArxivItems

SpecArxivFeed == InitArxivFeed /\ [][NextArxivFeed]_vars

(***************************************************************************)
(* sources/rss.rs: fetch_rss_items on decoded feeds.  A feed has two       *)
(* entries; the first one varies either in its content body and summary    *)
(* (bodies around both limits, with one-byte characters only or with       *)
(* two-byte characters too) or in its identifier, links and times.         *)
(***************************************************************************)
MaxRssLinks == 2

\* a text of n characters; every second one takes two bytes when wide
Text(n, wide) ==
  [i \in 1..n |-> IF wide /\ i % 2 = 0 THEN "é" ELSE DigitChars[(i % 10) + 1]]

ContentLengths == {0, 400, 499, 500, 501, 7000, 9999, 10000, 10001, 10050}

ContentInputs ==
  {None, Some([body |-> None])}
    \cup {Some([body |-> Some(Text(n, wide))]) : n \in ContentLengths, wide \in BOOLEAN}

RssLinkInputs ==
  { [href |-> <<"/","p","o","s","t","/","1">>, rel |-> None, media_type |-> None],
    [href |-> <<"/","a","l","t">>, rel |-> Some("alternate"), media_type |-> None],
    [href |-> <<"/","e","n","c">>, rel |-> Some("enclosure"),
     media_type |-> Some("audio/mpeg")],
    [href |-> <<>>, rel |-> Some("alternate"), media_type |-> None] }

RECURSIVE RssLinkLists(_)
\* the lists of at most n links
RssLinkLists(n) ==
  IF n = 0 THEN {<<>>}
  ELSE LET shorter == RssLinkLists(n - 1)
       IN  shorter \cup {Append(l, x) : l \in shorter, x \in RssLinkInputs}

RssEntry(id, links, summary, content, published, updated) ==
  [id |-> id, title |-> Some(<<"T">>), links |-> links, summary |-> summary,
   content |-> content, published |-> published, updated |-> updated,
   authors |-> <<>>, categories |-> <<>>]

RssSibling ==
  RssEntry(<<"p","2">>, <<>>, Some(<<"s">>), None, Some(9), None)

RssFeeds ==
  { [entries |-> << RssEntry(<<"p","1">>, <<>>, summary, content, Some(3), None),
                    RssSibling >>] :
      summary \in {None, Some(<<"s">>)}, content \in ContentInputs }
  \cup
  { [entries |-> << RssEntry(id, links, None, None, published, updated),
                    RssSibling >>] :
      id \in {<<>>, <<"p","1">>}, links \in RssLinkLists(MaxRssLinks),
      published \in {None, Some(3)}, updated \in {None, Some(5)} }

RssSource == Source(1, <<"b">>, "rss", "blog", Some("http://blog/feed"), TRUE)

InitRssFeed ==
  /\ InitStore
  /\ InitCalls
  /\ InitNoClassifier
  /\ InitNoRun
  /\ feed \in {Some(r) : r \in RssFeeds}
  /\ parsed = None

\* fetch_rss_items from the decoded feed on: Ok(items)
FetchRssItems ==
  /\ parsed = None
  /\ LET doc == Unwrap(feed)
     IN  /\ parsed' = Some(rss_filter_map(doc.entries, 1, RssSource, next_uuid, clock))
         /\ next_uuid' = next_uuid + Len(doc.entries)
  /\ clock' = clock + 1
  /\ UNCHANGED <<items, item_topics, item_likes, feed, callVars, classifierVars,
                 runVars>>

NextRssFeed == FetchRssItems

SpecRssFeed == InitRssFeed /\ [][NextRssFeed]_vars

(***************************************************************************)
(* C1                                                                      *)
(***************************************************************************)

C1_KeyRows(item) ==
  {r \in items : r.source_id = item.source_id /\ r.url = item.url}

\* C1: after a successful insert_or_update_item the store holds exactly one
\* row for the item's (source_id, url), and that row's title, summary, body,
\* published_at, raw_metadata and updated_at are those of the call; so of two
\* calls with one key the second one's values win.
C1_UpsertIdempotent ==
  (call.op = "insert_or_update_item" /\ call.ok) =>
    /\ Cardinality(C1_KeyRows(call.item)) = 1
    /\ \A r \in C1_KeyRows(call.item) :
         /\ r.title = call.item.title
         /\ r.summary = call.item.summary
         /\ r.body = call.item.body
         /\ r.published_at = call.item.published_at
         /\ r.raw_metadata = call.item.raw_metadata
         /\ r.updated_at = call.item.updated_at

\* a second successful call on a stored key, with another summary
C1_Witness ==
  /\ call.op = "insert_or_update_item"
  /\ call.ok
  /\ \E b \in call.before :
       /\ b.source_id = call.item.source_id
       /\ b.url = call.item.url
       /\ b.summary # call.item.summary
       /\ \E r \in items : r.id = b.id /\ r.summary = call.item.summary

(***************************************************************************)
(* C2                                                                      *)
(***************************************************************************)

C2_Key(r) == <<r.source_id, r.url>>

\* C2: the store holds exactly one row for each (source_id, url) upserted
\* successfully and no other row (so one URL under two source ids is two
\* rows), and an upsert leaves the rows of every other key as they were.
C2_DedupKey ==
  /\ \A k \in upserted : Cardinality({r \in items : C2_Key(r) = k}) = 1
  /\ \A r \in items : C2_Key(r) \in upserted
  /\ call.op = "insert_or_update_item" =>
       \A b \in call.before : C2_Key(b) # C2_Key(call.item) => b \in items

\* the same URL upserted for a second source: two rows, the first untouched
C2_Witness ==
  /\ call.op = "insert_or_update_item"
  /\ call.ok
  /\ \E b \in call.before :
       /\ b.url = call.item.url
       /\ b.source_id # call.item.source_id
       /\ b \in items
       /\ \E r \in items : r.id = call.item.id /\ r.url = b.url

(***************************************************************************)
(* C3                                                                      *)
(***************************************************************************)

\* C3: no step changes the id, created_at, source_id or url of a stored Item:
\* when insert_or_update_item meets a stored (source_id, url) the row keeps
\* the id and created_at of its first insert, whatever the fresh id and
\* created_at of the incoming item, in every ingestion cycle.
C3_ImmutableOnConflict ==
  [][\A r \in items :
       \E r2 \in items' :
         /\ r2.source_id = r.source_id
         /\ r2.url = r.url
         /\ r2.id = r.id
         /\ r2.created_at = r.created_at]_vars

\* in the second cycle an upsert succeeds for an item whose key is stored
\* under another id and an earlier created_at
C3_Witness ==
  /\ cycles = 2
  /\ log # <<>>
  /\ LET e == log[Len(log)]
     IN  /\ e.ev = "upsert"
         /\ e.ok
         /\ \E r \in items :
              /\ r.source_id = e.item.source_id
              /\ r.url = e.item.url
              /\ r.id # e.item.id
              /\ r.created_at < e.item.created_at
              /\ r.updated_at = e.item.updated_at
              /\ r.title = e.item.title

(***************************************************************************)
(* C4                                                                      *)
(***************************************************************************)

\* the result events of the running cycle, in order
ResultPositions == {i \in DOMAIN log : log[i].ev = "result"}

\* the number of successful insert_or_update_item calls of the cycle for the
\* sources in ids
OkUpserts(ids) ==
  Cardinality({i \in DOMAIN log :
                 log[i].ev = "upsert" /\ log[i].ok /\ log[i].source_id \in ids})

CycleReturned == pc = "sleep" /\ IsSome(cycle_result)

\* C4: when the query of the active sources succeeded, the cycle returns Ok
\* whatever the parsers returned; every source of the list has been processed,
\* in order, also after one that failed; a source whose parser failed has no
\* upsert, and the count is the number of successful upserts of the others.
C4_FaultIsolation ==
  (CycleReturned /\ log[1].ok) =>
    LET failed == {log[i].source_id : i \in {j \in ResultPositions : ~log[j].result.ok}}
        all == {sources_vec[k].id : k \in DOMAIN sources_vec}
    IN  /\ Unwrap(cycle_result).ok
        /\ Cardinality(ResultPositions) = Len(sources_vec)
        /\ \A i \in ResultPositions :
             log[i].source_id =
               sources_vec[Cardinality({j \in ResultPositions : j <= i})].id
        /\ OkUpserts(failed) = 0
        /\ Unwrap(cycle_result).count = OkUpserts(all \ failed)

\* a cycle in which the first source failed to fetch and the second one
\* upserted two items returned Ok(2)
C4_Witness ==
  /\ CycleReturned
  /\ Len(sources_vec) = 2
  /\ \E i, j \in ResultPositions :
       /\ i < j
       /\ log[i].source_id = sources_vec[1].id
       /\ ~log[i].result.ok
       /\ log[j].source_id = sources_vec[2].id
       /\ log[j].result = Ok(2)
  /\ cycle_result = Some(Ok(2))

(***************************************************************************)
(* C5                                                                      *)
(***************************************************************************)

TopicAttempted(item_id, label) ==
  \E i \in DOMAIN log :
    log[i].ev = "topic" /\ log[i].item_id = item_id /\ log[i].topic = label

\* C5: when a cycle has returned, for every item whose upsert succeeded in
\* it, of whichever parser, add_item_topic has been attempted for each label
\* of extract_topics(title, summary); and for no item whose upsert failed.
C5_TopicsAfterEveryUpsert ==
  (CycleReturned /\ log[1].ok) =>
    \A i \in DOMAIN log :
      log[i].ev = "upsert" =>
        LET labels == Range(extract_topics(log[i].item.title, log[i].item.summary))
        IN  IF log[i].ok
            THEN \A l \in labels : TopicAttempted(log[i].item.id, l)
            ELSE \A l \in labels : ~TopicAttempted(log[i].item.id, l)

\* the same for the items of the academic-feed parser alone
C5_ArxivTopicsAfterUpsert ==
  (CycleReturned /\ log[1].ok) =>
    \A i \in DOMAIN log :
      (log[i].ev = "upsert" /\ log[i].item.source_type = "paper") =>
        LET labels == Range(extract_topics(log[i].item.title, log[i].item.summary))
        IN  IF log[i].ok
            THEN \A l \in labels : TopicAttempted(log[i].item.id, l)
            ELSE \A l \in labels : ~TopicAttempted(log[i].item.id, l)

(***************************************************************************)
(* C6                                                                      *)
(***************************************************************************)

\* C6: the value a cycle returns is the number of insert_or_update_item calls
\* that succeeded in it, over all sources; and with no active source it is
\* Ok(0) and neither a fetch nor a storage write was made.
C6_CycleCount ==
  (CycleReturned /\ log[1].ok) =>
    /\ Unwrap(cycle_result).ok
    /\ Unwrap(cycle_result).count =
         Cardinality({i \in DOMAIN log : log[i].ev = "upsert" /\ log[i].ok})
    /\ get_active_sources(sources) = <<>> =>
         (cycle_result = Some(Ok(0)) /\ Len(log) = 1)

\* a cycle returned Ok(3) after four upserts, one of which failed, and after
\* an entry was dropped
C6_Witness ==
  /\ CycleReturned
  /\ cycle_result = Some(Ok(3))
  /\ Cardinality({i \in DOMAIN log : log[i].ev = "upsert"}) = 4
  /\ \E i \in DOMAIN log : log[i].ev = "upsert" /\ ~log[i].ok

\* a cycle over no active source returned Ok(0)
C6_WitnessEmpty ==
  /\ CycleReturned
  /\ sources = TableInactive
  /\ cycle_result = Some(Ok(0))

(***************************************************************************)
(* C7                                                                      *)
(***************************************************************************)

NoParser(source) ==
  \/ source.source_type \notin {"arxiv", "rss"}
  \/ source.ingest_url = None

\* C7: a source of type twitter_api, manual or unknown, and a source of type
\* arxiv or rss without ingest_url, gets the result Ok(0) with no fetch and no
\* storage call made for it, and the cycle goes on: when it returns, every
\* source of the list has its result.
C7_NoOpArms ==
  (log # <<>> /\ log[1].ok) =>
    /\ \A i \in ResultPositions :
         LET source == sources_vec[Cardinality({j \in ResultPositions : j <= i})]
         IN  /\ log[i].source_id = source.id
             /\ NoParser(source) =>
                  /\ log[i].result = Ok(0)
                  /\ log[i - 1].ev \in {"result", "get_active_sources"}
    /\ CycleReturned => Cardinality(ResultPositions) = Len(sources_vec)

\* the five sources without parser or ingest_url were passed over and the
\* sixth, an academic feed, upserted an item
C7_Witness ==
  /\ CycleReturned
  /\ sources = TableNoOps
  /\ Cardinality({i \in ResultPositions : log[i].result = Ok(0)}) = 5
  /\ \E i \in ResultPositions : log[i].result.ok /\ log[i].result.count >= 1
  /\ Unwrap(cycle_result).count >= 1

(***************************************************************************)
(* C8                                                                      *)
(***************************************************************************)

C8_Allowed == {-1, 0, 1}

\* C8: set_item_like with a score outside {-1, 0, 1} returns the validation
\* error and writes nothing; every stored ItemLike has a score in {-1, 0, 1},
\* there is at most one row per (user_id, item_id), and the row holds the
\* score of the last call for the key that returned Ok.
C8_ScoreValidation ==
  /\ \A r \in item_likes : r.score \in C8_Allowed
  /\ \A r1, r2 \in item_likes :
       (r1.user_id = r2.user_id /\ r1.item_id = r2.item_id) => r1 = r2
  /\ \A k \in DOMAIN accepted :
       \E r \in item_likes :
         r.user_id = k[1] /\ r.item_id = k[2] /\ r.score = accepted[k]
  /\ \A r \in item_likes : <<r.user_id, r.item_id>> \in DOMAIN accepted
  /\ call.op = "set_item_like" =>
       /\ call.score \notin C8_Allowed =>
            (~call.ok /\ call.err = "validation" /\ item_likes = call.before)
       /\ call.score \in C8_Allowed => call.err # "validation"

\* score 2 is refused for a key whose stored score is -1
C8_Witness ==
  /\ call.op = "set_item_like"
  /\ call.score = 2
  /\ ~call.ok
  /\ \E r \in item_likes :
       r.user_id = call.user_id /\ r.item_id = call.item_id /\ r.score = -1

(***************************************************************************)
(* C9                                                                      *)
(***************************************************************************)

C9_Stored(rows, item_id, topic) ==
  \E r \in rows : r.item_id = item_id /\ r.topic = topic

\* C9: add_item_topic with a stored (item_id, topic) pair returns Ok (unless
\* the storage itself fails) and leaves item_topics unchanged; there is at
\* most one row per pair, and no call updates or removes a row.
C9_TopicInsertIdempotent ==
  /\ \A r1, r2 \in item_topics :
       (r1.item_id = r2.item_id /\ r1.topic = r2.topic) => r1 = r2
  /\ call.op = "add_item_topic" =>
       /\ call.before \subseteq item_topics
       /\ C9_Stored(call.before, call.item_id, call.topic) =>
            (item_topics = call.before /\ (call.db_ok => call.ok))

\* a successful call with a pair that was stored already
C9_Witness ==
  /\ call.op = "add_item_topic"
  /\ call.ok
  /\ C9_Stored(call.before, call.item_id, call.topic)
  /\ item_topics = call.before
  /\ Cardinality(item_topics) >= 2

(***************************************************************************)
(* C10                                                                     *)
(***************************************************************************)

\* the labels in the order the claim lists them
C10_LabelOrder ==
  <<"LLM", "RL", "Multimodal", "Systems", "Alignment", "Agents", "Finance",
    "Open Source", "Search", "Data", "Optimization", "Applications">>

\* keyword kw occurs in title + " " + summary at position i, letter case ignored
C10_OccursAt(kw, i) ==
  LET text == cl_title \o <<" ">> \o
                (IF cl_summary = None THEN <<>> ELSE cl_summary[1])
  IN  /\ i + Len(kw) - 1 <= Len(text)
      /\ \A j \in 1..Len(kw) : LowerChar(text[i + j - 1]) = kw[j]

C10_Hit(r) ==
  \E k \in DOMAIN Rules[r].keywords :
    \E i \in 1..(Len(cl_title) + 1 + (IF cl_summary = None THEN 0 ELSE Len(cl_summary[1]))) :
      C10_OccursAt(Rules[r].keywords[k], i)

C10_Position(label) == CHOOSE r \in DOMAIN C10_LabelOrder : C10_LabelOrder[r] = label

C10_UnitTests ==
  IsSome(cl_topics) =>
    /\ (cl_title = TestTitleLLM /\ cl_summary = Some(TestSummaryLLM))
         => "LLM" \in Range(Unwrap(cl_topics))
    /\ (cl_title = TestTitleNone /\ cl_summary = None) => Unwrap(cl_topics) = <<>>


(***************************************************************************)
(* C11                                                                     *)
(***************************************************************************)

\* the link lines of the section of the second entry, <<>> when the text has
\* no such section
C11_Section ==
  LET xml == Unwrap(feed).xml_text
  IN  IF \E i \in DOMAIN xml : xml[i].id = ArxivId("2")
      THEN xml[CHOOSE i \in DOMAIN xml : xml[i].id = ArxivId("2")].links
      ELSE <<>>

C11_IsPdf(l) == IsSome(l.href) /\ l.title = Some("pdf")

C11_IsGeneral(l) == IsSome(l.href) /\ l.title # Some("pdf")

\* C11: in the Item of an entry, url is the href of the first link (in
\* document order) whose title is not pdf, also when that href contains "abs"
\* and a later one does not; pdf_url is the href of the last link whose title
\* is pdf (none without such a link); the href of a pdf link is never the url.
\* For the links [A title abs, B title pdf, C]: url is A or C, pdf_url is B.
C11_LinkPrecedence ==
  parsed # None =>
    \A k \in DOMAIN Unwrap(parsed) :
      LET item == Unwrap(parsed)[k]
          L == C11_Section
          pdfs == {i \in DOMAIN L : C11_IsPdf(L[i])}
      IN  item.raw_metadata.arxiv_id = "2" =>
            /\ \E i \in DOMAIN L :
                 /\ C11_IsGeneral(L[i])
                 /\ \A j \in 1..(i - 1) : ~C11_IsGeneral(L[j])
                 /\ item.url = Unwrap(L[i].href)
            /\ item.url \notin {<<"B">>, <<"/","p","d","f","/","2">>}
            /\ IF pdfs = {} THEN item.raw_metadata.pdf_url = None
               ELSE item.raw_metadata.pdf_url
                      = L[CHOOSE i \in pdfs : \A j \in pdfs : j <= i].href
            /\ L = << [href |-> Some(<<"A">>), title |-> Some("abs")],
                      [href |-> Some(<<"B">>), title |-> Some("pdf")],
                      [href |-> Some(<<"C">>), title |-> None] >>
                 => /\ item.url \in {<<"A">>, <<"C">>}
                    /\ item.raw_metadata.pdf_url = Some(<<"B">>)

\* the entry whose first link has "abs" in its href, followed by a pdf link and
\* a link without "abs", has been turned into an Item with the first href as url
C11_Witness ==
  /\ parsed # None
  /\ C11_Section = << [href |-> Some(<<"/","a","b","s","/","2">>), title |-> None],
                      [href |-> Some(<<"B">>), title |-> Some("pdf")],
                      [href |-> Some(<<"C">>), title |-> None] >>
  /\ \E k \in DOMAIN Unwrap(parsed) :
       /\ Unwrap(parsed)[k].raw_metadata.arxiv_id = "2"
       /\ Unwrap(parsed)[k].url = <<"/","a","b","s","/","2">>
       /\ Unwrap(parsed)[k].raw_metadata.pdf_url = Some(<<"B">>)

\* the links [A title abs, B title pdf, C] have given url A and pdf_url B
C11_WitnessExample ==
  /\ parsed # None
  /\ C11_Section = << [href |-> Some(<<"A">>), title |-> Some("abs")],
                      [href |-> Some(<<"B">>), title |-> Some("pdf")],
                      [href |-> Some(<<"C">>), title |-> None] >>
  /\ \E k \in DOMAIN Unwrap(parsed) :
       /\ Unwrap(parsed)[k].url = <<"A">>
       /\ Unwrap(parsed)[k].raw_metadata.pdf_url = Some(<<"B">>)

(***************************************************************************)
(* C12                                                                     *)
(***************************************************************************)

\* the entry has a well-formed date and its section of the text, located by
\* its id, has a link with an href whose title is not pdf
C12_Resolves(e) ==
  LET xml == Unwrap(feed).xml_text
  IN  /\ e.published.rfc3339
      /\ \E i \in DOMAIN xml :
           /\ xml[i].id = e.id
           /\ \A j \in 1..(i - 1) : xml[j].id # e.id
           /\ \E n \in DOMAIN xml[i].links : C11_IsGeneral(xml[i].links[n])

\* C12: fetch_arxiv_items returns Ok with exactly one Item for each entry
\* that has a well-formed date and a resolved url, in feed order; the entries
\* with a malformed date or without a url give no Item.
C12_EntryDropping ==
  parsed # None =>
    LET kept == SelectSeq(Unwrap(feed).entries, C12_Resolves)
        out == Unwrap(parsed)
    IN  /\ Len(out) = Len(kept)
        /\ \A k \in DOMAIN out :
             /\ out[k].raw_metadata.arxiv_id = kept[k].id[Len(kept[k].id)]
             /\ out[k].published_at = kept[k].published.instant

\* the first entry has a malformed date, the second only a pdf link: the
\* fetch returned the Item of the third entry alone
C12_Witness ==
  /\ parsed # None
  /\ ~Unwrap(feed).entries[1].published.rfc3339
  /\ Unwrap(feed).entries[2].published.rfc3339
  /\ C11_Section = << [href |-> Some(<<"B">>), title |-> Some("pdf")] >>
  /\ Len(Unwrap(parsed)) = 1
  /\ Unwrap(parsed)[1].raw_metadata.arxiv_id = "3"



(***************************************************************************)
(* C13                                                                     *)
(***************************************************************************)

\* the first limit characters of text, followed by "..." when text has more
C13_Expected(text, limit) ==
  IF Len(text) > limit THEN SubSeq(text, 1, limit) \o <<".", ".", ".">> ELSE text

\* C13: the body of an Item is the content body of its entry when that has
\* at most 10,000 characters, else its first 10,000 characters followed by
\* "..."; the summary of an entry without a summary is derived from the
\* content body in the same way with the limit 500.  Characters are counted,
\* not bytes.
C13_Truncation ==
  parsed # None =>
    LET entry == Unwrap(feed).entries[1]
        item == Unwrap(parsed)[1]
    IN  (IsSome(entry.content) /\ IsSome(Unwrap(entry.content).body)) =>
          LET text == Unwrap(Unwrap(entry.content).body)
          IN  /\ item.raw_metadata.feed_id = entry.id
              /\ item.body = Some(C13_Expected(text, BodyLimit))
              /\ Len(text) <= BodyLimit => item.body = Some(text)
              /\ Len(text) > BodyLimit => Len(Unwrap(item.body)) = BodyLimit + 3
              /\ IF IsSome(entry.summary) THEN item.summary = entry.summary
                 ELSE item.summary = Some(C13_Expected(text, SummaryLimit))

\* a content body of 10,050 characters, some of them of two bytes, has given
\* a body of 10,000 characters and "...", and a summary of 500 and "..."
C13_Witness ==
  /\ parsed # None
  /\ Unwrap(feed).entries[1].content = Some([body |-> Some(Text(10050, TRUE))])
  /\ Unwrap(feed).entries[1].summary = None
  /\ Len(Unwrap(Unwrap(parsed)[1].body)) = 10003
  /\ Len(Unwrap(Unwrap(parsed)[1].summary)) = 503

\* a content body of 7,000 characters and 10,500 bytes has been kept whole
C13_WitnessBytes ==
  /\ parsed # None
  /\ Unwrap(feed).entries[1].content = Some([body |-> Some(Text(7000, TRUE))])
  /\ Unwrap(Unwrap(parsed)[1].body) = Text(7000, TRUE)



(***************************************************************************)
(* C19                                                                     *)
(***************************************************************************)

\* the positions of the links of the entry whose relation is alternate, a
\* link without relation counting as alternate
C19_Alternates(entry) ==
  {i \in DOMAIN entry.links :
     entry.links[i].rel \in {None, Some("alternate")}}

\* the url the rule gives: the href of the first alternate link, else the
\* identifier of the entry
C19_Url(entry) ==
  LET alt == C19_Alternates(entry)
  IN  IF alt # {} THEN entry.links[CHOOSE i \in alt : \A j \in alt : i <= j].href
      ELSE entry.id

\* C19: the url of an Item is the href of the first alternate link of its
\* entry, else the identifier of the entry; an entry for which neither is a
\* value gives no Item, so that no Item has an empty url; an entry is not
\* dropped for a missing date, published_at being the published time, else
\* the updated time, else the current time.
C19_UrlResolution ==
  parsed # None =>
    LET entry == Unwrap(feed).entries[1]
        out == Unwrap(parsed)
        mine == {k \in DOMAIN out : out[k].raw_metadata.feed_id = entry.id}
    IN  /\ \A k \in DOMAIN out : out[k].url # <<>>
        /\ IF C19_Url(entry) = <<>> THEN mine = {}
           ELSE /\ mine = {1}
                /\ out[1].url = C19_Url(entry)
                /\ out[1].published_at
                     = IF IsSome(entry.published) THEN Unwrap(entry.published)
                       ELSE IF IsSome(entry.updated) THEN Unwrap(entry.updated)
                       ELSE out[1].created_at

\* what fetch_rss_items does: every entry gives an Item, whose url is the
\* href of the first alternate link, else the identifier, empty or not
C19_NeverDropped ==
  parsed # None =>
    LET entry == Unwrap(feed).entries[1]
        out == Unwrap(parsed)
    IN  /\ Len(out) = Len(Unwrap(feed).entries)
        /\ out[1].url = C19_Url(entry)
        /\ out[1].published_at
             = IF IsSome(entry.published) THEN Unwrap(entry.published)
               ELSE IF IsSome(entry.updated) THEN Unwrap(entry.updated)
               ELSE out[1].created_at

\* an entry without link and with an empty identifier has given an Item
C19_EmptyUrlEmitted ==
  /\ parsed # None
  /\ Unwrap(feed).entries[1].links = <<>>
  /\ Unwrap(feed).entries[1].id = <<>>
  /\ Len(Unwrap(parsed)) = 2
  /\ Unwrap(parsed)[1].url = <<>>



(***************************************************************************)
(* C14                                                                     *)
(***************************************************************************)

\* the sources whose fetch has failed in the cycle
C14_Failed(l) ==
  {l[i].source_id : i \in {j \in DOMAIN l : l[j].ev = "fetch" /\ ~l[j].ok}}

\* C14: from the failure of the fetch of a source to the end of the cycle, no
\* upsert is made for the source, its rows of items stay as earlier cycles
\* left them, and no row of item_topics is written while it is the current
\* source.
C14_FetchFailureWritesNothing ==
  [][ \A s \in C14_Failed(log') :
        /\ {r \in items' : r.source_id = s} = {r \in items : r.source_id = s}
        /\ \A i \in DOMAIN log' : log'[i].ev = "upsert" => log'[i].source_id # s
        /\ (item_topics' # item_topics => Current.id # s) ]_vars

\* a cycle has returned in which the fetch of a source failed that has rows
\* from an earlier cycle
C14_Witness ==
  /\ pc = "sleep"
  /\ cycles = 2
  /\ \E s \in C14_Failed(log) : \E r \in items : r.source_id = s



(***************************************************************************)
(* C15                                                                     *)
(***************************************************************************)

RECURSIVE C15_Follows(_, _, _)
\* the events are, for each item in order, its upsert and, after a successful
\* upsert of the academic feed, one add_item_topic for each of its labels in
\* order, whatever the results of these calls
C15_Follows(events, its, arxiv) ==
  IF its = <<>> THEN events = <<>>
  ELSE /\ events # <<>>
       /\ events[1].ev = "upsert"
       /\ events[1].item = Head(its)
       /\ LET labels == IF arxiv /\ events[1].ok
                        THEN extract_topics(Head(its).title, Head(its).summary)
                        ELSE <<>>
              n == Len(labels)
          IN  /\ Len(events) >= 1 + n
              /\ \A j \in 1..n :
                   /\ events[1 + j].ev = "topic"
                   /\ events[1 + j].item_id = Head(its).id
                   /\ events[1 + j].topic = labels[j]
              /\ C15_Follows(SubSeq(events, 2 + n, Len(events)), Tail(its), arxiv)

\* the positions of the successful fetches in the log whose source has returned
C15_Returned ==
  {f \in DOMAIN log :
     /\ log[f].ev = "fetch"
     /\ log[f].ok
     /\ \E k \in (f + 1)..Len(log) :
          log[k].ev = "result" /\ log[k].source_id = log[f].source_id}

\* the position of the result of the source fetched at position f
C15_ResultOf(f) ==
  CHOOSE k \in (f + 1)..Len(log) :
    log[k].ev = "result" /\ log[k].source_id = log[f].source_id

\* C15: a source whose fetch succeeded returns Ok; up to there every item of
\* the parser has been upserted, in order, also after a failed upsert; every
\* label of a stored item of the academic feed has been attempted, also after
\* a failed add_item_topic; and the count is the number of successful upserts.
C15_ItemFailuresSkipped ==
  \A f \in C15_Returned :
    LET k == C15_ResultOf(f)
        between == SubSeq(log, f + 1, k - 1)
        arxiv == \E r \in sources :
                   r.id = log[f].source_id /\ r.source_type = "arxiv"
    IN  /\ log[k].result.ok
        /\ C15_Follows(between, log[f].items, arxiv)
        /\ log[k].result.count
             = Cardinality({i \in DOMAIN between :
                              between[i].ev = "upsert" /\ between[i].ok})

\* a source has returned Ok(1) after the upsert of its first item failed and
\* the upsert of its second item succeeded
C15_Witness ==
  \E f \in C15_Returned :
    /\ log[f + 1].ev = "upsert" /\ ~log[f + 1].ok
    /\ log[f + 2].ev = "upsert" /\ log[f + 2].ok
    /\ log[C15_ResultOf(f)].result = Ok(1)

\* a source has returned Ok after an add_item_topic failed and a later call
\* succeeded
C15_WitnessTopic ==
  \E f \in C15_Returned :
    \E i, j \in (f + 1)..(C15_ResultOf(f) - 1) :
      /\ i < j
      /\ log[i].ev = "topic" /\ ~log[i].ok
      /\ log[j].ok
      /\ log[C15_ResultOf(f)].result.ok



(***************************************************************************)
(* C16                                                                     *)
(***************************************************************************)

\* the events of the log that name their source: fetches, upserts, results
C16_OfSource == {i \in DOMAIN log : log[i].ev \in {"fetch", "upsert", "result"}}

C16_Results == {i \in DOMAIN log : log[i].ev = "result"}

C16_Name(source_id) == (CHOOSE r \in sources : r.id = source_id).name

\* the items of the upserts of the source so far, in the order of the log
C16_Upserts(source_id) ==
  LET of(e) == e.ev = "upsert" /\ e.source_id = source_id
      ups == SelectSeq(log, of)
  IN  [i \in DOMAIN ups |-> ups[i].item]

\* within the cycle: the events of one source are contiguous and end with its
\* result, the sources come in ascending order of name without skipping an
\* active one, the upserts of a source follow the order of the parser's
\* list, and while a parser runs every event since the last result is of the
\* current source
C16_OneSourceAtATime ==
  /\ \A i, j, k \in C16_OfSource :
       (i < j /\ j < k /\ log[i].source_id = log[k].source_id)
         => log[j].source_id = log[i].source_id
  /\ \A k \in C16_Results : \A i \in C16_OfSource :
       log[i].source_id = log[k].source_id => i <= k
  /\ \A i, k \in C16_Results :
       i < k => name_less(C16_Name(log[i].source_id), C16_Name(log[k].source_id))
  /\ \A k \in C16_Results : \A r \in sources :
       (r.active /\ name_less(r.name, C16_Name(log[k].source_id)))
         => \E i \in C16_Results : i < k /\ log[i].source_id = r.id
  /\ \A f \in DOMAIN log :
       (log[f].ev = "fetch" /\ log[f].ok)
         => LET ups == C16_Upserts(log[f].source_id)
            IN  /\ Len(ups) <= Len(log[f].items)
                /\ ups = SubSeq(log[f].items, 1, Len(ups))
  /\ pc \in {"arxiv_items", "arxiv_topics", "rss_items"}
       => /\ idx \in DOMAIN sources_vec
          /\ \A i \in C16_OfSource :
               (\A k \in C16_Results : k < i) => log[i].source_id = Current.id
  /\ (pc = "sleep" /\ cycle_result # None /\ Unwrap(cycle_result).ok)
       => \A r \in sources :
            r.active => \E k \in C16_Results : log[k].source_id = r.id

\* a cycle starts only from the head of the loop, which is reached only from
\* the sleep, which is reached only by the return of run_ingestion_cycle
C16_CyclesDoNotOverlap ==
  /\ cycles' # cycles => (pc = "loop" /\ cycles' = cycles + 1)
  /\ (pc' = "loop" /\ pc # "loop") => pc = "sleep"
  /\ (pc' = "sleep" /\ pc # "sleep") => cycle_result' # None
  /\ pc = "sleep" => UNCHANGED <<items, item_topics, log>>

\* C16: sources are processed one at a time, in the order of
\* get_active_sources (ascending name); all upserts of a source are done
\* before the next source is fetched; the items of a source are upserted in
\* the order of the parser's list; a cycle starts only after the previous one
\* has returned and the sleep has elapsed.
C16_Sequential == []C16_OneSourceAtATime /\ [][C16_CyclesDoNotOverlap]_vars

\* the second cycle is over two sources, the first by name with two upserts
\* before the fetch of the second
C16_Witness ==
  /\ cycles = 2
  /\ pc = "sleep"
  /\ \E i, j, k, f \in C16_OfSource :
       /\ i < j /\ j < k /\ k < f
       /\ log[i].ev = "upsert" /\ log[j].ev = "upsert" /\ log[k].ev = "result"
       /\ log[f].ev = "fetch"
       /\ log[i].source_id = log[k].source_id
       /\ log[j].source_id = log[k].source_id
       /\ log[f].source_id # log[k].source_id



(***************************************************************************)
(* C17                                                                     *)
(***************************************************************************)

C18_SourceTypeMirrorsMedium ==
  \A r \in items :
    \E src \in sources : src.id = r.source_id /\ r.source_type = src.medium

\* a cycle has stored an Item of the academic feed as "paper" although the
\* medium of its source was "preprint" before the cycle began
C18_ArxivFixedPaper ==
  /\ pc = "sleep"
  /\ \E i \in DOMAIN log :
       /\ log[i].ev = "upsert"
       /\ log[i].ok
       /\ log[i].item.source_type = "paper"
       /\ \E src \in sources :
            /\ src.id = log[i].source_id
            /\ src.source_type = "arxiv"
            /\ src.medium = "preprint"

\* a cycle has ingested again, with the new medium, a URL of a feed whose
\* medium had been changed, and the stored row has kept the old source_type
C18_StaleAfterReingest ==
  /\ pc = "sleep"
  /\ \E i \in DOMAIN log :
       /\ log[i].ev = "upsert"
       /\ log[i].ok
       /\ log[i].item.source_type = "podcast"
       /\ \E r \in items :
            /\ r.source_id = log[i].source_id
            /\ r.url = log[i].item.url
            /\ r.source_type # "podcast"



(***************************************************************************)
(* C20                                                                     *)
(***************************************************************************)

\* C20: every add_item_topic of the pipeline is called with the id of a
\* stored row of items, and every row of item_topics refers to a row of
\* items, also when a cycle ingests again a URL that is already stored.
C20_TopicsReferToItems ==
  /\ \A i \in DOMAIN log :
       log[i].ev = "topic" => \E r \in items : r.id = log[i].item_id
  /\ \A t \in item_topics : \E r \in items : r.id = t.item_id

\* a cycle has upserted a URL that was already stored and has then called
\* add_item_topic with the id of the incoming item, which no row has: the
\* stored row has kept the id of its first insert
C20_FreshIdAttempt ==
  \E i, j \in DOMAIN log :
    /\ i < j
    /\ log[i].ev = "upsert" /\ log[i].ok
    /\ log[j].ev = "topic"
    /\ log[j].item_id = log[i].item.id
    /\ \A r \in items : r.id # log[j].item_id
    /\ \E r \in items :
         /\ r.source_id = log[i].item.source_id
         /\ r.url = log[i].item.url
         /\ r.id < log[j].item_id

\* such a call has been accepted: a row of item_topics refers to no row of
\* items
C20_DanglingRow ==
  \E t \in item_topics : \A r \in items : r.id # t.item_id

\* such a call has been rejected
C20_RejectedAttempt ==
  \E j \in DOMAIN log :
    /\ log[j].ev = "topic"
    /\ ~log[j].ok
    /\ \A r \in items : r.id # log[j].item_id
    /\ faults = 0


=============================================================================
